---- MODULE Spec2Model ----
(***************************************************************************)
(* Model of the transcription dispatcher of groq-audio-chunker             *)
(* (src/src/groq-client.js): classifyError, calculateBackoffDelay,         *)
(* transcribeChunkWithRetry and transcribeChunks, of its chunk planner     *)
(* (src/src/chunker.js): calculateChunks with findBestCutPoint, and of its *)
(* transcript merger (src/src/deduplication.js):                           *)
(* mergeTranscriptsWithDeduplication.                                      *)
(*                                                                         *)
(* JavaScript runs each stretch of code between two awaits to completion,  *)
(* so every action below is one such stretch.  The cancellation predicate  *)
(* shouldAbort() reads a flag that hooks and other event handlers may set; *)
(* the flag can therefore change only between two actions, and once set it *)
(* stays set for the rest of the run.  Hooks are taken to return normally. *)
(*                                                                         *)
(* phase, curHooks, lastHookChunk, subLog, extracts and polledLen record   *)
(* what the run did (calls made to the hooks, to fetch and to the          *)
(* extractor); the code does not read them.                                *)
(***************************************************************************)
EXTENDS Integers, Sequences, FiniteSets, TLC

\* ------------------------------------------------------------------ bounds
NumChunks == 3
MaxRetries == 2

\* ------------------------------------------------------- program constants
DefaultMaxRetries == 5
DefaultInitialDelayMs == 1000
DefaultMaxDelayMs == 60000
DefaultBackoffMultiplier == 2
SleepSliceMs == 500
DelayBetweenChunks == 500

VARIABLES
  pc,            \* position of transcribeChunks: loop, started, extracting, inflight, backoff, delay, done
  i,             \* loop index of transcribeChunks
  attempt,       \* loop index of transcribeChunkWithRetry
  aborted,       \* what shouldAbort() returns
  results,       \* the results array
  phase,         \* per chunk: how far its processing got
  curHooks,      \* hook calls made for the chunk started last, with their arguments
  lastHookChunk, \* chunk index passed to the most recent hook call (-1: none yet)
  subLog,        \* outcomes of the submissions (fetch calls) made for the chunk started last
  extracts,      \* number of extractChunkFn calls made for the chunk started last
  waitLeft,      \* delay - (Date.now() - startWait) of the backoff wait
  policy,        \* retryConfig
  polledLen,     \* Len(results) when shouldAbort() first returned true (-1: not yet)
  blobMB,        \* size of the blob extracted for the chunk started last, in MB (0: none yet)
  cls,           \* classifier run: input error, status code, output
  bo,            \* backoff run: attempt, config, output
  pl,            \* calculateChunks run: options, duration, cutPoints, currentPosition, chunks
  mg,            \* merge run: results, overlapDurationSec, what is returned
  ps,            \* the processing state object and the operation called last
  sr             \* findSilentRegions run: frames, threshold, minDurationMs, what is returned

dispVars == <<pc, i, attempt, aborted, results, phase, curHooks, lastHookChunk,
              subLog, extracts, waitLeft, policy, polledLen, blobMB>>
pureVars == <<cls, bo, pl, mg, ps, sr>>
vars == <<pc, i, attempt, aborted, results, phase, curHooks, lastHookChunk,
          subLog, extracts, waitLeft, policy, polledLen, blobMB, cls, bo, pl, mg, ps, sr>>

Min(a, b) == IF a < b THEN a ELSE b

RECURSIVE Pow(_, _)
Pow(b, e) == IF e = 0 THEN 1 ELSE b * Pow(b, e - 1)

\* ------------------------------------------------------------- ErrorType
RATE_LIMIT == "rate_limit"
NETWORK == "network"
INVALID_AUDIO == "invalid_audio"
AUTH == "auth"
SERVER == "server"
TIMEOUT == "timeout"
UNKNOWN == "unknown"

\* An error object, reduced to what the code reads from it:
\*   name      error.name
\*   timedOut  message.includes('timed out')
\*   hasFetch  message.includes('fetch')
\*   netMsg    message.includes('NetworkError') || message.includes('Failed to fetch')
\*   audioMsg  message.includes('audio') || .includes('format') || .includes('file')
\*   digits    parseInt of the first run of three digits in the message (0: none)
\*   status    error.statusCode (0: not set)
\*   src       who threw it: service, extract, abort
MkErr(src, name, timedOut, hasFetch, netMsg, audioMsg, digits, status) ==
  [src |-> src, name |-> name, timedOut |-> timedOut, hasFetch |-> hasFetch,
   netMsg |-> netMsg, audioMsg |-> audioMsg, digits |-> digits, status |-> status]

NoErr == MkErr("none", "none", FALSE, FALSE, FALSE, FALSE, 0, 0)

\* entries of subLog that are not errors: a fetch still in flight, a 200 response
Pending == MkErr("pending", "none", FALSE, FALSE, FALSE, FALSE, 0, 0)
OkResp == MkErr("ok", "none", FALSE, FALSE, FALSE, FALSE, 0, 0)

\* new Error('Transcription aborted by user')
AbortErr == MkErr("abort", "Error", FALSE, FALSE, FALSE, FALSE, 0, 0)

\* new Error('Transcription request timed out'), thrown by transcribeChunk
\* when its AbortController fires
TimeoutErr == MkErr("service", "Error", TRUE, FALSE, FALSE, FALSE, 0, 0)

\* the error transcribeChunk throws for a non-ok response: the message is the
\* body's error.message (or the raw body, or the status line), statusCode = response.status
HttpErr(status, timedOut, audioMsg) ==
  MkErr("service", "Error", timedOut, FALSE, FALSE, audioMsg, status, status)

\* what fetch rejects with when controller.abort() fires at the deadline
FetchAbortError == MkErr("service", "AbortError", FALSE, FALSE, FALSE, FALSE, 0, 0)

\* the catch block of transcribeChunk: an AbortError becomes the timed-out
\* error, anything else is rethrown as it is
transcribeChunkCatch(e) == IF e.name = "AbortError" THEN TimeoutErr ELSE e

\* a classifier that takes a timeout as final
classifyError_TimeoutFatal(error, statusCode) ==
  IF error.name = "AbortError" \/ error.timedOut
  THEN [type |-> TIMEOUT, retryable |-> FALSE]
  ELSE IF error.netMsg \/ (error.name = "TypeError" /\ error.hasFetch)
  THEN [type |-> NETWORK, retryable |-> TRUE]
  ELSE IF statusCode \in {429, 500, 502, 503, 504}
  THEN [type |-> SERVER, retryable |-> TRUE]
  ELSE IF statusCode \in {401, 403}
  THEN [type |-> AUTH, retryable |-> FALSE]
  ELSE [type |-> UNKNOWN, retryable |-> FALSE]

classifyError(error, statusCode) ==
  IF error.name = "AbortError" \/ error.timedOut
  THEN [type |-> TIMEOUT, retryable |-> TRUE]
  ELSE IF error.name = "TypeError" /\ error.hasFetch
  THEN [type |-> NETWORK, retryable |-> TRUE]
  ELSE IF error.netMsg
  THEN [type |-> NETWORK, retryable |-> TRUE]
  ELSE IF statusCode # 0
  THEN CASE statusCode = 429 -> [type |-> RATE_LIMIT, retryable |-> TRUE]
         [] statusCode \in {401, 403} -> [type |-> AUTH, retryable |-> FALSE]
         [] statusCode = 400 ->
              IF error.audioMsg
              THEN [type |-> INVALID_AUDIO, retryable |-> FALSE]
              ELSE [type |-> UNKNOWN, retryable |-> FALSE]
         [] statusCode \in {500, 502, 503, 504} -> [type |-> SERVER, retryable |-> TRUE]
         [] OTHER -> [type |-> UNKNOWN, retryable |-> FALSE]
  ELSE [type |-> UNKNOWN, retryable |-> FALSE]

\* the delay without the Math.min cap
calculateBackoffDelay_NoCap(k, config) ==
  config.initialDelayMs * Pow(config.backoffMultiplier, k)

calculateBackoffDelay(k, config) ==
  Min(config.initialDelayMs * Pow(config.backoffMultiplier, k), config.maxDelayMs)

\* ---------------------------------------------------------------- inputs
\* retryConfig values the dispatcher is run with
Policies ==
  { [maxRetries |-> MaxRetries, initialDelayMs |-> 100, backoffMultiplier |-> 2, maxDelayMs |-> 300],
    [maxRetries |-> MaxRetries, initialDelayMs |-> 600, backoffMultiplier |-> 2, maxDelayMs |-> 1000],
    [maxRetries |-> 0, initialDelayMs |-> 100, backoffMultiplier |-> 2, maxDelayMs |-> 300] }

\* what a submission can end with, other than success (the classifier is run on
\* every kind of error under SpecClassify; the dispatcher takes the same path for
\* every retryable kind)
ServiceErrors ==
  { HttpErr(503, FALSE, FALSE),
    HttpErr(401, FALSE, FALSE),
    HttpErr(401, TRUE, FALSE),     \* 401 whose error.message says "... timed out ..."
    HttpErr(400, FALSE, TRUE),
    transcribeChunkCatch(FetchAbortError) }

\* what extractChunkFn can throw: a message without digits, or with "401" in it
ExtractErrors ==
  { MkErr("extract", "Error", FALSE, FALSE, FALSE, FALSE, 0, 0),
    MkErr("extract", "Error", FALSE, FALSE, FALSE, FALSE, 401, 0) }

Chunks == 0 .. (NumChunks - 1)

\* validateChunkSize(blob, maxSizeMB = 25)
MaxSizeMB == 25

\* blob.size / (1024 * 1024) of what extractChunkFn returns: file.slice(startByte,
\* endByte) of a file of any bit rate
BlobSizesMB == {MaxSizeMB, MaxSizeMB + 1}

\* ----------------------------------------------------------- hook records
HookEntry(h, c, a, m, d, k) ==
  [h |-> h, c |-> c, attempt |-> a, max |-> m, delay |-> d, kind |-> k]

StartHook(c) == HookEntry("start", c, 0, 0, 0, "none")
CompleteHook(c) == HookEntry("complete", c, 0, 0, 0, "none")
ErrorHook(c) == HookEntry("error", c, 0, 0, 0, "none")

\* onRetry called with the 0-based attempt
RetryHook_ZeroBased(c, a, config, e) ==
  HookEntry("retry", c, a, config.maxRetries,
            calculateBackoffDelay(a, config), classifyError(e, e.status).type)

\* onRetry(chunk, i, attempt + 1, config.maxRetries, delay, errorInfo)
RetryHook(c, a, config, e) ==
  HookEntry("retry", c, a + 1, config.maxRetries,
            calculateBackoffDelay(a, config), classifyError(e, e.status).type)

\* the status code the catch block of transcribeChunks classifies with:
\* error.statusCode, or else the first three digits found in the message
StatusFromMessage(e) ==
  IF e.status = 0 /\ e.digits # 0 THEN e.digits ELSE e.status

SuccessResult(c) == [index |-> c, success |-> TRUE, errorType |-> "none"]

FailedResult(c, e) ==
  [index |-> c, success |-> FALSE,
   errorType |-> classifyError(e, StatusFromMessage(e)).type]

\* the loop stepping over a chunk
NextIndex_Skip(c) == c + 2

\* shouldAbort() returns true: remember the results held the first time it does
PolledTrue == IF polledLen = -1 THEN Len(results) ELSE polledLen

\* for (let i = 0; ...; i++)
NextIndex(c) == c + 1

\* ------------------------------------------------------------------ Init
ClsIdle == [error |-> NoErr, status |-> 0, out |-> "idle", retryable |-> FALSE]
BoIdle == [k |-> 0, config |-> [maxRetries |-> 0, initialDelayMs |-> 0,
                                 backoffMultiplier |-> 1, maxDelayMs |-> 0],
           out |-> -1]

\* what the last call of the probe and of findBestCutPoint gave (none yet)
NoProbe == [silences |-> <<>>, target |-> 0, found |-> FALSE, at |-> 0]

PlIdle == [pc |-> "idle", unit |-> 1, audio |-> <<>>,
           duration |-> 0, chunkLengthSec |-> 0, silenceWindowSec |-> 0,
           overlapDurationSec |-> 0, cutPoints |-> <<>>, how |-> <<>>,
           currentPosition |-> 0, chunks |-> <<>>, last |-> NoProbe]

\* return { text: '', words: [], stats: { overlapsMerged: 0, wordsDeduplicated: 0 } }
EmptyMerge == [path |-> "empty", text |-> <<>>, words |-> <<>>,
               overlapsMerged |-> 0, wordsDeduplicated |-> 0]

MgIdle == [pc |-> "idle", results |-> <<>>, overlapDurationSec |-> 0, out |-> EmptyMerge]

\* createProcessingState(): the object as it is returned, no operation called yet
PsIdle == [isProcessing |-> FALSE, isAborted |-> FALSE, currentChunkIndex |-> -1,
           failedChunks |-> <<>>, op |-> "none"]

SrIdle == [pc |-> "idle", frames |-> <<>>, lastFrameMs |-> 0, threshold |-> 0,
           minDurationMs |-> 0, out |-> <<>>]

DispInit ==
  /\ pc = "loop"
  /\ i = 0
  /\ attempt = 0
  /\ aborted = FALSE
  /\ results = <<>>
  /\ phase = [c \in Chunks |-> "pending"]
  /\ curHooks = <<>>
  /\ lastHookChunk = -1
  /\ subLog = <<>>
  /\ extracts = 0
  /\ waitLeft = 0
  /\ polledLen = -1
  /\ blobMB = 0

Init ==
  /\ DispInit
  /\ ps = PsIdle
  /\ sr = SrIdle
  /\ policy \in Policies
  /\ cls = ClsIdle
  /\ bo = BoIdle
  /\ pl = PlIdle
  /\ mg = MgIdle

\* the catch block without the onChunkError call
CatchChunkError_NoHook(e) ==
  /\ results' = Append(results, FailedResult(i, e))
  /\ curHooks' = curHooks
  /\ lastHookChunk' = i
  /\ phase' = [phase EXCEPT ![i] = "failed"]
  /\ IF classifyError(e, StatusFromMessage(e)).type = AUTH
     THEN pc' = "done" /\ i' = i
     ELSE pc' = "loop" /\ i' = NextIndex(i)

\* the catch block without the results.push
CatchChunkError_NoPush(e) ==
  /\ results' = results
  /\ curHooks' = Append(curHooks, ErrorHook(i))
  /\ lastHookChunk' = i
  /\ phase' = [phase EXCEPT ![i] = "failed"]
  /\ IF classifyError(e, StatusFromMessage(e)).type = AUTH
     THEN pc' = "done" /\ i' = i
     ELSE pc' = "loop" /\ i' = NextIndex(i)

\* the catch block with a break for every kind of error
CatchChunkError_BreakAlways(e) ==
  /\ results' = Append(results, FailedResult(i, e))
  /\ curHooks' = Append(curHooks, ErrorHook(i))
  /\ lastHookChunk' = i
  /\ phase' = [phase EXCEPT ![i] = "failed"]
  /\ pc' = "done" /\ i' = i

\* ------------------------------------------- transcribeChunks: catch block
\* results.push({chunk, success: false, ...}); onChunkError(...); break on AUTH,
\* otherwise on to the next iteration
CatchChunkError(e) ==
  /\ results' = Append(results, FailedResult(i, e))
  /\ curHooks' = Append(curHooks, ErrorHook(i))
  /\ lastHookChunk' = i
  /\ phase' = [phase EXCEPT ![i] = "failed"]
  /\ IF classifyError(e, StatusFromMessage(e)).type = AUTH
     THEN pc' = "done" /\ i' = i
     ELSE pc' = "loop" /\ i' = NextIndex(i)

\* ------------------------------------------------ transcribeChunks: loop
\* i < chunks.length fails: return results
LoopExit ==
  /\ pc = "loop" /\ i >= NumChunks
  /\ pc' = "done"
  /\ UNCHANGED <<i, attempt, aborted, results, phase, curHooks, lastHookChunk,
                 subLog, extracts, waitLeft, policy, polledLen>>
  /\ UNCHANGED blobMB
  /\ UNCHANGED pureVars

\* shouldAbort() at the head of the loop body: break
AbortAtLoopHead ==
  /\ pc = "loop" /\ i < NumChunks /\ aborted
  /\ pc' = "done"
  /\ UNCHANGED <<i, attempt, aborted, results, phase, curHooks, lastHookChunk,
                 subLog, extracts, waitLeft, policy>>
  /\ polledLen' = PolledTrue
  /\ UNCHANGED blobMB
  /\ UNCHANGED pureVars

\* onChunkStart(chunk, i)
StartChunk ==
  /\ pc = "loop" /\ i < NumChunks /\ ~aborted
  /\ curHooks' = <<StartHook(i)>>
  /\ lastHookChunk' = i
  /\ phase' = [phase EXCEPT ![i] = "started"]
  /\ subLog' = <<>>
  /\ extracts' = 0
  /\ attempt' = 0
  /\ waitLeft' = 0
  /\ pc' = "started"
  /\ UNCHANGED <<i, aborted, results, policy, polledLen>>
  /\ blobMB' = 0
  /\ UNCHANGED pureVars

\* shouldAbort() after the callback: break
AbortAfterStart ==
  /\ pc = "started" /\ aborted
  /\ phase' = [phase EXCEPT ![i] = "cancelled"]
  /\ pc' = "done"
  /\ UNCHANGED <<i, attempt, aborted, results, curHooks, lastHookChunk,
                 subLog, extracts, waitLeft, policy>>
  /\ polledLen' = PolledTrue
  /\ UNCHANGED blobMB
  /\ UNCHANGED pureVars

\* extractChunkFn(chunk) is called and awaited
BeginExtract ==
  /\ pc = "started" /\ ~aborted
  /\ phase' = [phase EXCEPT ![i] = "extracting"]
  /\ extracts' = extracts + 1
  /\ pc' = "extracting"
  /\ UNCHANGED <<i, attempt, aborted, results, curHooks, lastHookChunk,
                 subLog, waitLeft, policy, polledLen>>
  /\ UNCHANGED blobMB
  /\ UNCHANGED pureVars

\* extractChunkFn rejects: the catch block of transcribeChunks
ExtractFail ==
  /\ pc = "extracting"
  /\ \E e \in ExtractErrors : CatchChunkError(e)
  /\ UNCHANGED <<attempt, aborted, subLog, extracts, waitLeft, policy, polledLen>>
  /\ UNCHANGED blobMB
  /\ UNCHANGED pureVars

\* const blob = await extractChunkFn(chunk); shouldAbort() after extraction: break
AbortAfterExtract ==
  /\ pc = "extracting" /\ aborted
  /\ phase' = [phase EXCEPT ![i] = "cancelled"]
  /\ pc' = "done"
  /\ UNCHANGED <<i, attempt, aborted, results, curHooks, lastHookChunk,
                 subLog, extracts, waitLeft, policy>>
  /\ polledLen' = PolledTrue
  /\ \E size \in BlobSizesMB : blobMB' = size
  /\ UNCHANGED pureVars

\* the blob arrives; transcribeChunkWithRetry starts: attempt = 0, shouldAbort()
\* is false, transcribeChunk calls fetch
FirstSubmit ==
  /\ pc = "extracting" /\ ~aborted
  /\ attempt' = 0
  /\ subLog' = Append(subLog, Pending)
  /\ phase' = [phase EXCEPT ![i] = "inflight"]
  /\ pc' = "inflight"
  /\ UNCHANGED <<i, aborted, results, curHooks, lastHookChunk,
                 extracts, waitLeft, policy, polledLen>>
  /\ \E size \in BlobSizesMB : blobMB' = size
  /\ UNCHANGED pureVars

\* the outcome of the fetch in flight is written into its subLog entry
Answered(e) == [subLog EXCEPT ![Len(subLog)] = e]

\* after onChunkComplete: the delay between chunks, unless this was the last chunk
AfterComplete(c) ==
  IF c < NumChunks - 1 /\ DelayBetweenChunks > 0
  THEN pc' = "delay" /\ i' = c
  ELSE pc' = "loop" /\ i' = NextIndex(c)

\* transcribeChunk returns: results.push({chunk, success: true, ...}); onChunkComplete
RespondOk ==
  /\ pc = "inflight"
  /\ subLog' = Answered(OkResp)
  /\ results' = Append(results, SuccessResult(i))
  /\ curHooks' = Append(curHooks, CompleteHook(i))
  /\ lastHookChunk' = i
  /\ phase' = [phase EXCEPT ![i] = "succeeded"]
  /\ AfterComplete(i)
  /\ UNCHANGED <<attempt, aborted, extracts, waitLeft, policy, polledLen>>
  /\ UNCHANGED blobMB
  /\ UNCHANGED pureVars

\* setTimeout(r, delayBetweenChunks) fires; i++
DelayDone ==
  /\ pc = "delay"
  /\ pc' = "loop"
  /\ i' = NextIndex(i)
  /\ UNCHANGED <<attempt, aborted, results, phase, curHooks, lastHookChunk,
                 subLog, extracts, waitLeft, policy, polledLen>>
  /\ UNCHANGED blobMB
  /\ UNCHANGED pureVars

\* ------------------------------------ transcribeChunkWithRetry: catch block
\* every error taken as retryable
Retryable_Always(e) == TRUE

\* one attempt too many: attempt <= config.maxRetries
AttemptsLeft_OneMore(a, config) == a <= config.maxRetries

\* errorInfo.retryable of classifyError(error, error.statusCode)
Retryable(e) == classifyError(e, e.status).retryable

\* the negation of attempt >= config.maxRetries
AttemptsLeft(a, config) == a < config.maxRetries

\* transcribeChunk throws e and classifyError says not retryable: rethrown
RespondFatal ==
  /\ pc = "inflight"
  /\ \E e \in ServiceErrors :
       /\ ~Retryable(e)
       /\ subLog' = Answered(e)
       /\ CatchChunkError(e)
  /\ UNCHANGED <<attempt, aborted, extracts, waitLeft, policy, polledLen>>
  /\ UNCHANGED blobMB
  /\ UNCHANGED pureVars

\* retryable, but attempt >= config.maxRetries: rethrown
RespondExhausted ==
  /\ pc = "inflight"
  /\ \E e \in ServiceErrors :
       /\ Retryable(e)
       /\ ~AttemptsLeft(attempt, policy)
       /\ subLog' = Answered(e)
       /\ CatchChunkError(e)
  /\ UNCHANGED <<attempt, aborted, extracts, waitLeft, policy, polledLen>>
  /\ UNCHANGED blobMB
  /\ UNCHANGED pureVars

\* retryable, attempts left, shouldAbort() before waiting: throws the abort error
RespondAbort ==
  /\ pc = "inflight"
  /\ \E e \in ServiceErrors :
       /\ Retryable(e)
       /\ AttemptsLeft(attempt, policy)
       /\ aborted
       /\ subLog' = Answered(e)
       /\ CatchChunkError(AbortErr)
  /\ UNCHANGED <<attempt, aborted, extracts, waitLeft, policy>>
  /\ polledLen' = PolledTrue
  /\ UNCHANGED blobMB
  /\ UNCHANGED pureVars

\* retryable, attempts left, not aborted: onRetry, then the wait begins
RespondRetry ==
  /\ pc = "inflight"
  /\ \E e \in ServiceErrors :
       /\ Retryable(e)
       /\ AttemptsLeft(attempt, policy)
       /\ ~aborted
       /\ subLog' = Answered(e)
       /\ curHooks' = Append(curHooks, RetryHook(i, attempt, policy, e))
  /\ lastHookChunk' = i
  /\ waitLeft' = calculateBackoffDelay(attempt, policy)
  /\ phase' = [phase EXCEPT ![i] = "backoff"]
  /\ pc' = "backoff"
  /\ UNCHANGED <<i, attempt, aborted, results, extracts, policy, polledLen>>
  /\ UNCHANGED blobMB
  /\ UNCHANGED pureVars

\* in the wait loop, shouldAbort(): throws the abort error
BackoffAbort ==
  /\ pc = "backoff" /\ waitLeft > 0 /\ aborted
  /\ CatchChunkError(AbortErr)
  /\ UNCHANGED <<attempt, aborted, subLog, extracts, waitLeft, policy>>
  /\ polledLen' = PolledTrue
  /\ UNCHANGED blobMB
  /\ UNCHANGED pureVars

\* one sleep for the whole of the remaining wait
SleepSlice_Whole(left) == left

\* Math.min(500, delay - (Date.now() - startWait))
SleepSlice(left) == Min(SleepSliceMs, left)

\* in the wait loop: shouldAbort() is false, sleep(SleepSlice)
BackoffSleep ==
  /\ pc = "backoff" /\ waitLeft > 0 /\ ~aborted
  /\ waitLeft' = waitLeft - SleepSlice(waitLeft)
  /\ UNCHANGED <<pc, i, attempt, aborted, results, phase, curHooks, lastHookChunk,
                 subLog, extracts, policy, polledLen>>
  /\ UNCHANGED blobMB
  /\ UNCHANGED pureVars

\* the wait is over, attempt++, shouldAbort() before the attempt: the abort error
\* is thrown inside the try, classified unknown and not retryable, and rethrown
NextAttemptAbort ==
  /\ pc = "backoff" /\ waitLeft = 0 /\ aborted
  /\ attempt' = attempt + 1
  /\ ~Retryable(AbortErr)
  /\ CatchChunkError(AbortErr)
  /\ UNCHANGED <<aborted, subLog, extracts, waitLeft, policy>>
  /\ polledLen' = PolledTrue
  /\ UNCHANGED blobMB
  /\ UNCHANGED pureVars

\* the next attempt with the chunk extracted once more
NextAttemptSubmit_Reextract ==
  /\ pc = "backoff" /\ waitLeft = 0 /\ ~aborted
  /\ attempt' = attempt + 1
  /\ extracts' = extracts + 1
  /\ subLog' = Append(subLog, Pending)
  /\ phase' = [phase EXCEPT ![i] = "inflight"]
  /\ pc' = "inflight"
  /\ UNCHANGED <<i, aborted, results, curHooks, lastHookChunk,
                 waitLeft, policy, polledLen>>
  /\ UNCHANGED blobMB
  /\ UNCHANGED pureVars

\* the wait is over, attempt++, not aborted: transcribeChunk calls fetch again
NextAttemptSubmit ==
  /\ pc = "backoff" /\ waitLeft = 0 /\ ~aborted
  /\ attempt' = attempt + 1
  /\ subLog' = Append(subLog, Pending)
  /\ phase' = [phase EXCEPT ![i] = "inflight"]
  /\ pc' = "inflight"
  /\ UNCHANGED <<i, aborted, results, curHooks, lastHookChunk,
                 extracts, waitLeft, policy, polledLen>>
  /\ UNCHANGED blobMB
  /\ UNCHANGED pureVars

\* a hook or another event handler makes shouldAbort() return true
Cancel ==
  /\ pc # "done" /\ ~aborted
  /\ aborted' = TRUE
  /\ UNCHANGED <<pc, i, attempt, results, phase, curHooks, lastHookChunk,
                 subLog, extracts, waitLeft, policy, polledLen>>
  /\ UNCHANGED blobMB
  /\ UNCHANGED pureVars

Next ==
  \/ LoopExit \/ AbortAtLoopHead \/ StartChunk \/ AbortAfterStart \/ BeginExtract
  \/ ExtractFail \/ AbortAfterExtract \/ FirstSubmit
  \/ RespondOk \/ DelayDone \/ RespondFatal \/ RespondExhausted
  \/ RespondAbort \/ RespondRetry
  \/ BackoffAbort \/ BackoffSleep \/ NextAttemptAbort \/ NextAttemptSubmit
  \/ Cancel

Spec == Init /\ [][Next]_vars

\* ------------------------------------------------ classifyError, run alone
StatusCodes == <<0, 400, 401, 403, 404, 418, 429, 500, 502, 503, 504>>

ClassifyInputs ==
  { [error |-> MkErr("service", n, t, f, m, a, 0, StatusCodes[s]),
     status |-> StatusCodes[s], out |-> "idle", retryable |-> FALSE] :
      n \in {"Error", "TypeError", "AbortError"}, t \in BOOLEAN, f \in BOOLEAN,
      m \in BOOLEAN, a \in BOOLEAN, s \in 1 .. Len(StatusCodes) }

InitClassify ==
  /\ DispInit
  /\ ps = PsIdle
  /\ sr = SrIdle
  /\ policy = [maxRetries |-> 0, initialDelayMs |-> 100, backoffMultiplier |-> 2, maxDelayMs |-> 300]
  /\ cls \in ClassifyInputs
  /\ bo = BoIdle
  /\ pl = PlIdle
  /\ mg = MgIdle

Classify ==
  /\ cls.out = "idle"
  /\ cls' = [cls EXCEPT !.out = classifyError(cls.error, cls.status).type,
                        !.retryable = classifyError(cls.error, cls.status).retryable]
  /\ UNCHANGED <<dispVars, bo, pl, mg, ps, sr>>

NextClassify == Classify

SpecClassify == InitClassify /\ [][NextClassify]_vars

\* ---------------------------------------- calculateBackoffDelay, run alone
MaxAttemptK == 7

RetryConfig ==
  [maxRetries |-> DefaultMaxRetries, initialDelayMs |-> DefaultInitialDelayMs,
   backoffMultiplier |-> DefaultBackoffMultiplier, maxDelayMs |-> DefaultMaxDelayMs]

BackoffConfigs ==
  { [maxRetries |-> DefaultMaxRetries, initialDelayMs |-> d, backoffMultiplier |-> m, maxDelayMs |-> x] :
      d \in {0, 100, 500, 1000}, m \in {1, 2, 3}, x \in {500, 5000, 60000} }

InitBackoff ==
  /\ DispInit
  /\ ps = PsIdle
  /\ sr = SrIdle
  /\ policy = [maxRetries |-> 0, initialDelayMs |-> 100, backoffMultiplier |-> 2, maxDelayMs |-> 300]
  /\ cls = ClsIdle
  /\ bo \in { [k |-> k, config |-> c, out |-> -1] : k \in 0 .. MaxAttemptK, c \in BackoffConfigs }
  /\ pl = PlIdle
  /\ mg = MgIdle

Backoff ==
  /\ bo.out = -1
  /\ bo' = [bo EXCEPT !.out = calculateBackoffDelay(bo.k, bo.config)]
  /\ UNCHANGED <<dispVars, cls, pl, mg, ps, sr>>

NextBackoff == Backoff

SpecBackoff == InitBackoff /\ [][NextBackoff]_vars

\* ------------------------------------------------ calculateChunks, run alone
\* Times are counted in ticks, pl.unit of them to the second: whole seconds
\* where the probe may answer anything, tenths of a second where the silences
\* of the audio are given (pl.audio).  Silence durations are milliseconds, as
\* the probe reports them.
MaxDuration == 7
MaxCuts == 3
MaxSilences == 2

\* if (idealCut >= duration - 1) break
LastChunkSlackSec == 1
\* score = silence.duration - distance * 100
DistancePenalty == 100
\* silencedetect d=0.3, minDurationMs = 300
MinSilenceMs == 300

Durations == 1 .. MaxDuration
\* chunkLengthMinutes * 60
ChunkLengths == {1, 2, 3}
SilenceWindows == {0, 2, 6}
Overlaps == {0, 1, 4}
SilenceDurations == {MinSilenceMs, 5 * MinSilenceMs}

Max(a, b) == IF a > b THEN a ELSE b
Abs(x) == IF x < 0 THEN -x ELSE x

\* const startSec = Math.max(0, targetTimeSec - windowSec / 2)
WindowStart(targetTimeSec, windowSec) == Max(0, targetTimeSec - windowSec \div 2)
\* const endSec = Math.min(duration, targetTimeSec + windowSec / 2)
WindowEnd(targetTimeSec, windowSec, duration) == Min(duration, targetTimeSec + windowSec \div 2)

RECURSIVE SortedSeq(_)
\* the silences of a window in the order of time, as the probe lists them
SortedSeq(S) ==
  IF S = {} THEN <<>>
  ELSE LET first == CHOOSE x \in S : \A y \in S : x.midpoint <= y.midpoint
       IN <<first>> \o SortedSeq(S \ {first})

\* what analyzeWindowForSilence can return for the window startSec .. endSec: at
\* most MaxSilences silences of at least 300 ms that lie inside the window, so
\* that every midpoint is strictly between startSec and endSec
SilencesIn(startSec, endSec) ==
  LET Mids == (startSec + 1) .. (endSec - 1)
  IN UNION { { SortedSeq({ [midpoint |-> m, duration |-> d[m]] : m \in M }) :
                 d \in [M -> SilenceDurations] } :
             M \in { X \in SUBSET Mids : Cardinality(X) <= MaxSilences } }

\* a score that leaves the distance out
SilenceScore_NoPenalty(silence, targetTimeSec) == silence.duration

\* const score = silence.duration - (distance * 100)
SilenceScore(silence, targetTimeSec) ==
  silence.duration - (Abs(silence.midpoint - targetTimeSec) * DistancePenalty) \div pl.unit

RECURSIVE BestFrom(_, _, _, _)
\* the for loop of findBestCutPoint from element k on; best is the index of
\* bestSilence (0: null, bestScore = -Infinity)
BestFrom(silences, targetTimeSec, k, best) ==
  IF k > Len(silences) THEN best
  ELSE IF best = 0 \/ SilenceScore(silences[k], targetTimeSec)
                        > SilenceScore(silences[best], targetTimeSec)
       THEN BestFrom(silences, targetTimeSec, k + 1, k)
       ELSE BestFrom(silences, targetTimeSec, k + 1, best)

\* returns null (found = FALSE) or the midpoint of the best silence
findBestCutPoint(silences, targetTimeSec) ==
  IF Len(silences) = 0
  THEN [found |-> FALSE, at |-> 0]
  ELSE [found |-> TRUE, at |-> silences[BestFrom(silences, targetTimeSec, 1, 0)].midpoint]

\* const idealCut = Math.min(currentPosition + chunkLengthSec, duration)
idealCut == Min(pl.currentPosition + pl.chunkLengthSec, pl.duration)

\* the while loop goes into another iteration
MoreCuts ==
  /\ pl.currentPosition < pl.duration
  /\ ~(idealCut >= pl.duration - LastChunkSlackSec * pl.unit)

\* logicalEnd taken from the same cut point as logicalStart
logicalEnd_Same(cutPoints, k) == cutPoints[k + 1]

\* the start moved back without the clamp at 0
actualStart_NoClamp(k, logicalStart, overlap) ==
  IF k = 0 THEN logicalStart ELSE logicalStart - overlap

\* a leading overlap for the first chunk too
overlapLeading_Always(k, overlap) == overlap

\* the end left at the cut for every chunk
actualEnd_NoOverlap(k, n, end, overlap, duration) == end

\* const logicalStart = cutPoints[i]  (k counts from 0, sequences from 1)
logicalStart(cutPoints, k) == cutPoints[k + 1]
\* const logicalEnd = cutPoints[i + 1]
logicalEnd(cutPoints, k) == cutPoints[k + 2]

\* i === 0 ? logicalStart : Math.max(0, logicalStart - overlapDurationSec)
actualStart(k, start, overlap) ==
  IF k = 0 THEN start ELSE Max(0, start - overlap)

\* i === cutPoints.length - 2 ? logicalEnd : Math.min(duration, logicalEnd + overlapDurationSec)
actualEnd(k, n, end, overlap, duration) ==
  IF k = n - 2 THEN end ELSE Min(duration, end + overlap)

\* hasLeadingOverlap ? overlapDurationSec : 0
overlapLeading(k, overlap) == IF k > 0 /\ overlap > 0 THEN overlap ELSE 0
\* hasTrailingOverlap ? overlapDurationSec : 0
overlapTrailing(k, n, overlap) == IF k < n - 2 /\ overlap > 0 THEN overlap ELSE 0

\* every chunk labelled as cut at a silence
cutType_Silence(k, n) == "silence"

\* cutInfo.type
cutType(k, n) == IF k = n - 2 THEN "end" ELSE "silence"

\* the object pushed for chunk k in the second pass
MakeChunk(cutPoints, k, overlap, duration) ==
  [index |-> k,
   logicalStart |-> logicalStart(cutPoints, k),
   logicalEnd |-> logicalEnd(cutPoints, k),
   start |-> actualStart(k, logicalStart(cutPoints, k), overlap),
   end |-> actualEnd(k, Len(cutPoints), logicalEnd(cutPoints, k), overlap, duration),
   duration |-> actualEnd(k, Len(cutPoints), logicalEnd(cutPoints, k), overlap, duration)
                  - actualStart(k, logicalStart(cutPoints, k), overlap),
   leading |-> overlapLeading(k, overlap),
   trailing |-> overlapTrailing(k, Len(cutPoints), overlap),
   type |-> cutType(k, Len(cutPoints))]

\* for (let i = 0; i < cutPoints.length - 1; i++) chunks.push({...})
SecondPass(cutPoints, overlap, duration) ==
  [k \in 1 .. (Len(cutPoints) - 1) |-> MakeChunk(cutPoints, k - 1, overlap, duration)]

\* after getAudioDuration: cutPoints = [0], currentPosition = 0
InitChunker ==
  /\ DispInit
  /\ ps = PsIdle
  /\ sr = SrIdle
  /\ policy = [maxRetries |-> 0, initialDelayMs |-> 100, backoffMultiplier |-> 2, maxDelayMs |-> 300]
  /\ cls = ClsIdle
  /\ bo = BoIdle
  /\ pl \in { [pc |-> "pass1", unit |-> 1, audio |-> <<>>,
               duration |-> d, chunkLengthSec |-> c, silenceWindowSec |-> w,
               overlapDurationSec |-> o, cutPoints |-> <<0>>, how |-> <<>>,
               currentPosition |-> 0, chunks |-> <<>>, last |-> NoProbe] :
              d \in Durations, c \in ChunkLengths, w \in SilenceWindows, o \in Overlaps }
  /\ mg = MgIdle

\* cutPoints.push(actualCut); currentPosition = actualCut
PushCut(actualCut, h, probe) ==
  pl' = [pl EXCEPT !.cutPoints = Append(@, actualCut),
                   !.how = Append(@, h),
                   !.currentPosition = actualCut,
                   !.last = probe]

\* one iteration of the while loop: the probe returns its silences and
\* findBestCutPoint chooses among them, or finds none
PlanCut ==
  /\ pl.pc = "pass1" /\ MoreCuts /\ Len(pl.cutPoints) <= MaxCuts
  /\ \E silences \in SilencesIn(WindowStart(idealCut, pl.silenceWindowSec),
                                WindowEnd(idealCut, pl.silenceWindowSec, pl.duration)) :
       LET cutPoint == findBestCutPoint(silences, idealCut)
           probe == [silences |-> silences, target |-> idealCut,
                     found |-> cutPoint.found, at |-> cutPoint.at]
       IN IF cutPoint.found
          THEN PushCut(cutPoint.at, "silence", probe)
          ELSE PushCut(idealCut, "none", probe)
  /\ UNCHANGED <<dispVars, cls, bo, mg, ps, sr>>

\* a failure of the probe that ends the planning
PlanCutProbeFails_Abort ==
  /\ pl.pc = "pass1" /\ MoreCuts /\ Len(pl.cutPoints) <= MaxCuts
  /\ pl' = [pl EXCEPT !.pc = "failed"]
  /\ UNCHANGED <<dispVars, cls, bo, mg, ps, sr>>

\* one iteration of the while loop: analyzeWindowForSilence throws, the catch
\* block logs and the cut stays at idealCut
PlanCutProbeFails ==
  /\ pl.pc = "pass1" /\ MoreCuts /\ Len(pl.cutPoints) <= MaxCuts
  /\ PushCut(idealCut, "failed", NoProbe)
  /\ UNCHANGED <<dispVars, cls, bo, mg, ps, sr>>

\* the loop ends: cutPoints.push(duration), the second pass, return chunks
PlanFinish ==
  /\ pl.pc = "pass1" /\ ~MoreCuts
  /\ pl' = [pl EXCEPT !.cutPoints = Append(@, pl.duration),
                      !.chunks = SecondPass(Append(pl.cutPoints, pl.duration),
                                            pl.overlapDurationSec, pl.duration),
                      !.pc = "done"]
  /\ UNCHANGED <<dispVars, cls, bo, mg, ps, sr>>

NextChunker == PlanCut \/ PlanCutProbeFails \/ PlanFinish

SpecChunker == InitChunker /\ [][NextChunker]_vars

\* ------------------------------------ calculateChunks, the loop without end
\* one iteration of the while loop once cutPoints holds more than MaxCuts
\* cuts: the cut is made as in PlanCut and PlanCutProbeFails (a probe that
\* fails cuts where a probe without silences does), currentPosition moves, and
\* the push to cutPoints, which the loop never reads, is left out of the state
PlanCutUncounted ==
  /\ pl.pc = "pass1" /\ MoreCuts /\ Len(pl.cutPoints) > MaxCuts
  /\ \E silences \in SilencesIn(WindowStart(idealCut, pl.silenceWindowSec),
                                WindowEnd(idealCut, pl.silenceWindowSec, pl.duration)) :
       LET cutPoint == findBestCutPoint(silences, idealCut)
       IN pl' = [pl EXCEPT !.currentPosition = IF cutPoint.found THEN cutPoint.at ELSE idealCut,
                           !.last = [silences |-> silences, target |-> idealCut,
                                     found |-> cutPoint.found, at |-> cutPoint.at]]
  /\ UNCHANGED <<dispVars, cls, bo, mg, ps, sr>>

NextChunkerLive == PlanCut \/ PlanCutProbeFails \/ PlanCutUncounted \/ PlanFinish

\* the first pass does not read the overlap: one value of it is enough
InitChunkerLive == InitChunker /\ pl.overlapDurationSec = 0

\* the probe and the loop always return: an iteration that can be made is made
SpecChunkerLive == InitChunkerLive /\ [][NextChunkerLive]_vars /\ WF_vars(NextChunkerLive)

\* --------------------------- calculateChunks on an audio with known silences
\* Times are tenths of a second (pl.unit = 10).

\* chunkLengthMinutes = 10, silenceWindowSec = 30 (the default), in ticks
SeedChunkLength == 10 * 60 * 10
SeedWindow == 30 * 10

\* a silence of 1.2 s around the tick mid, as silencedetect reports it
Quiet(mid) == [start |-> mid - 6, end |-> mid + 6, duration |-> 1200]

\* a file of 30 minutes with a silence near 600 s and one near 1200 s, and
\* files no longer than one chunk, with or without a silence in the middle
SeedDurations == {1, 15, 1200, SeedChunkLength - 1, SeedChunkLength, 3 * SeedChunkLength}
SeedOverlaps == {0, 100}
SeedAudios(duration) ==
  IF duration > SeedChunkLength
  THEN { <<Quiet(m1), Quiet(m2)>> : m1 \in 5995 .. 6010, m2 \in 11990 .. 12005 }
  ELSE IF duration >= 100 THEN { <<>>, <<Quiet(duration \div 2)>> }
  ELSE { <<>> }

\* what analyzeWindowForSilence returns for the window: the silences of the
\* audio that lie in it, each with midpoint: (s.start + s.end) / 2
ProbeAudio(audio, startSec, endSec) ==
  LET inWindow == SelectSeq(audio, LAMBDA s : s.start >= startSec /\ s.end <= endSec)
  IN [k \in 1 .. Len(inWindow) |->
        [midpoint |-> (inWindow[k].start + inWindow[k].end) \div 2,
         duration |-> inWindow[k].duration]]

InitSeeds ==
  /\ DispInit
  /\ ps = PsIdle
  /\ sr = SrIdle
  /\ policy = [maxRetries |-> 0, initialDelayMs |-> 100, backoffMultiplier |-> 2, maxDelayMs |-> 300]
  /\ cls = ClsIdle
  /\ bo = BoIdle
  /\ mg = MgIdle
  /\ \E d \in SeedDurations, o \in SeedOverlaps :
       \E audio \in SeedAudios(d) :
         pl = [pc |-> "pass1", unit |-> 10, audio |-> audio,
               duration |-> d, chunkLengthSec |-> SeedChunkLength,
               silenceWindowSec |-> SeedWindow, overlapDurationSec |-> o,
               cutPoints |-> <<0>>, how |-> <<>>, currentPosition |-> 0,
               chunks |-> <<>>, last |-> NoProbe]

\* one iteration of the while loop on the known audio
PlanCutAudio ==
  /\ pl.pc = "pass1" /\ MoreCuts
  /\ LET silences == ProbeAudio(pl.audio,
                                WindowStart(idealCut, pl.silenceWindowSec),
                                WindowEnd(idealCut, pl.silenceWindowSec, pl.duration))
         cutPoint == findBestCutPoint(silences, idealCut)
         probe == [silences |-> silences, target |-> idealCut,
                   found |-> cutPoint.found, at |-> cutPoint.at]
     IN IF cutPoint.found
        THEN PushCut(cutPoint.at, "silence", probe)
        ELSE PushCut(idealCut, "none", probe)
  /\ UNCHANGED <<dispVars, cls, bo, mg, ps, sr>>

NextSeeds == PlanCutAudio \/ PlanFinish

SpecSeeds == InitSeeds /\ [][NextSeeds]_vars

\* ------------------------------- mergeTranscriptsWithDeduplication, run alone
\* Word times are in units of 0.1 s.  A centrality is kept as the pair num, den
\* of minDistanceFromBoundary and chunkDuration (its value is num / (den / 2)),
\* and means are compared as exact fractions.
LogicalLen == 4

\* the 0.1 of overlapStart - 0.1 and overlapEnd + 0.1
OverlapTolerance == 1

MergeChunkCounts == {1, 2, 3}
MergeOverlaps == {0, 2}
WordCounts == {0, 1, 2}

\* start and end of a word as the service gives them, relative to chunk.start
WordShapes ==
  { [start |-> 1, end |-> 2], [start |-> 3, end |-> 4], [start |-> 4, end |-> 5],
    [start |-> 5, end |-> 6], [start |-> 3, end |-> 6] }

\* the chunks of a plan of n chunks with cuts every LogicalLen, as calculateChunks builds them
MergePlan(n, overlap) ==
  SecondPass([k \in 1 .. (n + 1) |-> (k - 1) * LogicalLen], overlap, n * LogicalLen)

\* word.word of the j-th word of the answer for chunk c
WordNames == << <<"p1", "p2">>, <<"q1", "q2">>, <<"r1", "r2">> >>
WordName(c, j) == WordNames[c + 1][j]

\* the j-th word of the answer for chunk c
ServiceWord(c, j, shape) == [word |-> WordName(c, j), start |-> shape.start, end |-> shape.end]

\* a successful result of transcribeChunks for a chunk: data.text and data.words
\* (an answer without words has a text of one token)
WordsResult(chunk, shapes) ==
  [chunk |-> chunk, success |-> TRUE,
   text |-> IF Len(shapes) = 0 THEN <<"t">>
            ELSE [j \in 1 .. Len(shapes) |-> WordName(chunk.index, j)],
   words |-> [j \in 1 .. Len(shapes) |-> ServiceWord(chunk.index, j, shapes[j])]]

\* a failed result of transcribeChunks
FailedChunkResult(chunk) == [chunk |-> chunk, success |-> FALSE, text |-> <<>>, words |-> <<>>]

\* the results without the filter
successfulResults_All(rs) == rs

\* results.filter(r => r.success && r.text)
successfulResults(rs) == SelectSeq(rs, LAMBDA r : r.success /\ r.text # <<>>)

\* the word with its times left relative to the chunk
AbsoluteWord_Relative(result, word) ==
  [word |-> word.word,
   absoluteStart |-> word.start,
   absoluteEnd |-> word.end,
   num |-> Min(word.start - result.chunk.logicalStart, result.chunk.logicalEnd - word.end),
   den |-> result.chunk.logicalEnd - result.chunk.logicalStart,
   chunkIndex |-> result.chunk.index,
   original |-> word]

\* the object pushed to allWordsWithAbsoluteTime for a word of a result
AbsoluteWord(result, word) ==
  LET absoluteStart == result.chunk.start + word.start
      absoluteEnd == result.chunk.start + word.end
  IN [word |-> word.word,
      absoluteStart |-> absoluteStart,
      absoluteEnd |-> absoluteEnd,
      num |-> Min(absoluteStart - result.chunk.logicalStart,
                  result.chunk.logicalEnd - absoluteEnd),
      den |-> result.chunk.logicalEnd - result.chunk.logicalStart,
      chunkIndex |-> result.chunk.index,
      original |-> word]

RECURSIVE allWordsWithAbsoluteTime(_, _)
\* the words of the results from the k-th on, in the order of the two for loops
allWordsWithAbsoluteTime(rs, k) ==
  IF k > Len(rs) THEN <<>>
  ELSE [j \in 1 .. Len(rs[k].words) |-> AbsoluteWord(rs[k], rs[k].words[j])]
         \o allWordsWithAbsoluteTime(rs, k + 1)

\* wordsByChunk.get(c)
wordsByChunk(words, c) == SelectSeq(words, LAMBDA w : w.chunkIndex = c)

RECURSIVE SortedInts(_)
SortedInts(S) ==
  IF S = {} THEN <<>>
  ELSE LET m == CHOOSE x \in S : \A y \in S : x <= y
       IN <<m>> \o SortedInts(S \ {m})

\* [...wordsByChunk.keys()].sort((a, b) => a - b)
chunkIndices(words) == SortedInts({ words[j].chunkIndex : j \in 1 .. Len(words) })

\* index (from 0) of the first word with absoluteStart >= overlapStart - 0.1,
\* chunkWords.length when there is none
thisChunkOverlapStartIdx(chunkWords, overlapStart) ==
  LET J == { j \in 1 .. Len(chunkWords) :
               chunkWords[j].absoluteStart >= overlapStart - OverlapTolerance }
  IN IF J = {} THEN Len(chunkWords)
     ELSE (CHOOSE j \in J : \A h \in J : j <= h) - 1

\* number of words before the first one with absoluteStart > overlapEnd + 0.1
nextChunkOverlapEndIdx(nextChunkWords, overlapEnd) ==
  LET J == { j \in 1 .. Len(nextChunkWords) :
               nextChunkWords[j].absoluteStart > overlapEnd + OverlapTolerance }
  IN IF J = {} THEN Len(nextChunkWords)
     ELSE (CHOOSE j \in J : \A h \in J : j <= h) - 1

RECURSIVE SumNum(_, _)
SumNum(ws, k) == IF k > Len(ws) THEN 0 ELSE ws[k].num + SumNum(ws, k + 1)

\* reduce((sum, w) => sum + w.centrality, 0) / length, or 0 for no words:
\* the fraction p / q with q > 0
MeanCentrality(ws) ==
  IF Len(ws) = 0 THEN [p |-> 0, q |-> 1]
  ELSE [p |-> 2 * SumNum(ws, 1), q |-> ws[1].den * Len(ws)]

\* x > y for two such fractions
Greater(x, y) == x.p * y.q > y.p * x.q

\* the later chunk taken as authoritative whatever the centralities
useNextChunk_Always(thisWords, nextWords) == TRUE

\* const useNextChunk = nextChunkCentrality > thisChunkCentrality
useNextChunk(thisWords, nextWords) == Greater(MeanCentrality(nextWords), MeanCentrality(thisWords))

\* a startIndex entry that leaves its overlapWordsCount out
StartRegion_NoCount(idx, count) == [kind |-> "start", idx |-> idx, count |-> 0]

\* an entry of the overlapRegions map: it holds cutoffIndex or startIndex
NoRegion == [kind |-> "none", idx |-> 0, count |-> 0]
CutoffRegion(idx, count) == [kind |-> "cutoff", idx |-> idx, count |-> count]
StartRegion(idx, count) == [kind |-> "start", idx |-> idx, count |-> count]

RECURSIVE OverlapRegions(_, _, _, _)
\* step 2 from pair k on: the overlapRegions map and the overlapRegionsProcessed
\* set after the loop; overlapRegions.set replaces what the map held for the chunk
OverlapRegions(words, idxs, k, acc) ==
  IF k > Len(idxs) - 1 THEN acc
  ELSE
    LET chunkIndex == idxs[k]
        nextChunkIndex == idxs[k + 1]
        chunkWords == wordsByChunk(words, chunkIndex)
        nextChunkWords == wordsByChunk(words, nextChunkIndex)
        thisChunkEnd == chunkWords[Len(chunkWords)].absoluteEnd
        nextChunkStart == nextChunkWords[1].absoluteStart
        startIdx == thisChunkOverlapStartIdx(chunkWords, nextChunkStart)
        endIdx == nextChunkOverlapEndIdx(nextChunkWords, thisChunkEnd)
        thisChunkOverlapWords == SubSeq(chunkWords, startIdx + 1, Len(chunkWords))
        nextChunkOverlapWords == SubSeq(nextChunkWords, 1, endIdx)
    IN IF ~(thisChunkEnd > nextChunkStart)
       THEN OverlapRegions(words, idxs, k + 1, acc)
       ELSE OverlapRegions(words, idxs, k + 1,
              [regions |->
                 IF useNextChunk(thisChunkOverlapWords, nextChunkOverlapWords)
                 THEN [acc.regions EXCEPT
                         ![chunkIndex] = CutoffRegion(startIdx, Len(thisChunkOverlapWords)),
                         ![nextChunkIndex] = StartRegion(0, 0)]
                 ELSE [acc.regions EXCEPT
                         ![chunkIndex] = CutoffRegion(Len(chunkWords), 0),
                         ![nextChunkIndex] = StartRegion(endIdx, Len(nextChunkOverlapWords))],
               processed |-> acc.processed \cup {<<chunkIndex, nextChunkIndex>>}])

\* step 3 for one chunk with its words put in the order of their start times
IncludedWords_ByTime(chunkWords, region) ==
  LET startIdx == IF region.kind = "start" THEN region.idx ELSE 0
      endIdx == IF region.kind = "cutoff" THEN region.idx ELSE Len(chunkWords)
      kept == SubSeq(chunkWords, startIdx + 1, endIdx)
  IN IF Len(kept) = 2 /\ kept[1].absoluteStart > kept[2].absoluteStart
     THEN <<kept[2], kept[1]>>
     ELSE kept

\* step 3 for one chunk: the words with startIdx <= j < endIdx
IncludedWords(chunkWords, region) ==
  LET startIdx == IF region.kind = "start" THEN region.idx ELSE 0
      endIdx == IF region.kind = "cutoff" THEN region.idx ELSE Len(chunkWords)
  IN SubSeq(chunkWords, startIdx + 1, endIdx)

RECURSIVE finalWords(_, _, _, _)
finalWords(words, idxs, k, regions) ==
  IF k > Len(idxs) THEN <<>>
  ELSE IncludedWords(wordsByChunk(words, idxs[k]), regions[idxs[k]])
         \o finalWords(words, idxs, k + 1, regions)

RECURSIVE wordsDeduplicated(_, _, _)
\* wordsDeduplicated += overlapInfo.overlapWordsCount || 0
wordsDeduplicated(idxs, k, regions) ==
  IF k > Len(idxs) THEN 0
  ELSE regions[idxs[k]].count + wordsDeduplicated(idxs, k + 1, regions)

deduplicateByTimestamp(words) ==
  LET idxs == chunkIndices(words)
      found == OverlapRegions(words, idxs, 1,
                 [regions |-> [c \in { idxs[k] : k \in 1 .. Len(idxs) } |-> NoRegion],
                  processed |-> {}])
      final == finalWords(words, idxs, 1, found.regions)
  IN [path |-> "timestamp",
      text |-> [j \in 1 .. Len(final) |-> final[j].word],
      words |-> final,
      overlapsMerged |-> Cardinality(found.processed),
      wordsDeduplicated |-> wordsDeduplicated(idxs, 1, found.regions)]

\* ---------------------------------------------------------- fallbackTextMerge
\* A text is the sequence of its tokens: text.trim() and tokenize() of a text
\* whose tokens are separated by blanks, and join(' ') the other way.
\* Math.ceil(length * 0.3), in tenths
SearchWindowTenths == 3
\* if (overlap.length >= 2)
MinOverlapTokens == 2

TextLens == {1, 4, 7}
\* tokens as the service writes them; "x" and "y" fill the middle of a text
RawTokens == {"a", "A.", "b", "B,"}

\* word.toLowerCase().replace(/[.,!?;:'"()[\]{}]/g, '')
normalizeWord(word) ==
  CASE word \in {"a", "A."} -> "a"
    [] word \in {"b", "B,"} -> "b"
    [] OTHER -> word

\* Math.min(length, Math.ceil(length * 0.3))
searchWindow(length) == Min(length, (SearchWindowTenths * length + 9) \div 10)

\* words1.slice(-searchWindow1)
tail1(words1) ==
  IF searchWindow(Len(words1)) = 0 THEN words1
  ELSE SubSeq(words1, Len(words1) - searchWindow(Len(words1)) + 1, Len(words1))
\* words2.slice(0, searchWindow2)
head2(words2) == SubSeq(words2, 1, searchWindow(Len(words2)))

RECURSIVE matchLength(_, _, _, _)
\* the while loop of findMatchFromPosition from i1, i2 (counted from 0)
matchLength(t1, h2, i1, i2) ==
  IF i1 < Len(t1) /\ i2 < Len(h2) /\ normalizeWord(t1[i1 + 1]) = normalizeWord(h2[i2 + 1])
  THEN 1 + matchLength(t1, h2, i1 + 1, i2 + 1)
  ELSE 0

findMatchFromPosition(t1, h2, startIndex1) ==
  LET K == { k \in 0 .. (Len(h2) - 1) : normalizeWord(h2[k + 1]) = normalizeWord(t1[startIndex1 + 1]) }
  IN IF K = {} THEN [length |-> 0, endIndex2 |-> 0]
     ELSE LET startIndex2 == CHOOSE k \in K : \A h \in K : k <= h
              n == matchLength(t1, h2, startIndex1, startIndex2)
          IN [length |-> n, endIndex2 |-> startIndex2 + n]

RECURSIVE bestOverlapFrom(_, _, _, _)
\* the for loop of findBestOverlap from position p1 of tail1 on
bestOverlapFrom(t1, h2, p1, best) ==
  IF p1 >= Len(t1) THEN best
  ELSE LET matchResult == findMatchFromPosition(t1, h2, p1)
       IN IF matchResult.length > best.length
          THEN bestOverlapFrom(t1, h2, p1 + 1,
                 [length |-> matchResult.length, startIndex1 |-> p1,
                  endIndex2 |-> matchResult.endIndex2])
          ELSE bestOverlapFrom(t1, h2, p1 + 1, best)

findBestOverlap(t1, h2) ==
  bestOverlapFrom(t1, h2, 0, [length |-> 0, startIndex1 |-> 0, endIndex2 |-> 0])

mergeOverlappingTexts(text1, text2) ==
  LET overlap == findBestOverlap(tail1(text1), head2(text2))
  IN IF overlap.length >= MinOverlapTokens
     THEN [merged |-> text1 \o SubSeq(text2, overlap.endIndex2 + 1, Len(text2)),
           wordsDeduplicated |-> overlap.length]
     ELSE [merged |-> text1 \o text2, wordsDeduplicated |-> 0]

RECURSIVE fallbackFrom(_, _, _, _)
\* the for loop of fallbackTextMerge from result k on
fallbackFrom(rs, overlapDurationSec, k, acc) ==
  IF k > Len(rs) THEN acc
  ELSE IF overlapDurationSec > 0
       THEN LET mergeResult == mergeOverlappingTexts(acc.text, rs[k].text)
            IN fallbackFrom(rs, overlapDurationSec, k + 1,
                 [acc EXCEPT !.text = mergeResult.merged,
                             !.wordsDeduplicated = @ + mergeResult.wordsDeduplicated,
                             !.overlapsMerged = IF mergeResult.wordsDeduplicated > 0
                                                THEN @ + 1 ELSE @])
       ELSE fallbackFrom(rs, overlapDurationSec, k + 1,
                 [acc EXCEPT !.text = acc.text \o rs[k].text])

fallbackTextMerge(rs, overlapDurationSec) ==
  fallbackFrom(rs, overlapDurationSec, 2,
    [path |-> "fallback", text |-> rs[1].text, words |-> <<>>,
     overlapsMerged |-> 0, wordsDeduplicated |-> 0])

mergeTranscriptsWithDeduplication(rs, overlapDurationSec) ==
  IF Len(successfulResults(rs)) = 0 THEN EmptyMerge
  ELSE IF Len(allWordsWithAbsoluteTime(successfulResults(rs), 1)) > 0
       THEN deduplicateByTimestamp(allWordsWithAbsoluteTime(successfulResults(rs), 1))
       ELSE fallbackTextMerge(successfulResults(rs), overlapDurationSec)

\* ------------------------------------------------------ inputs of the merge
\* the answers for an audio of the given length: its words lie within the audio
WordSeqs(duration) ==
  UNION { [1 .. n -> { shape \in WordShapes : shape.end <= duration }] : n \in WordCounts }

\* what transcribeChunks can hold for a chunk: a failure, or an answer with
\* zero to two words
ChunkResults(chunk) ==
  {FailedChunkResult(chunk)} \cup { WordsResult(chunk, shapes) : shapes \in WordSeqs(chunk.duration) }

RECURSIVE ResultsUpTo(_, _)
\* the results of the first k chunks of a plan, one per chunk, in the order of the plan
ResultsUpTo(plan, k) ==
  IF k = 0 THEN {<<>>}
  ELSE { Append(rs, r) : rs \in ResultsUpTo(plan, k - 1), r \in ChunkResults(plan[k]) }

ResultsOf(plan) == ResultsUpTo(plan, Len(plan))

\* an answer without words whose text has n tokens, the tokens near the chunk
\* boundary taken from RawTokens: at the end of the text for the earlier chunk,
\* at its beginning for the later one
TextResult(chunk, text) == [chunk |-> chunk, success |-> TRUE, text |-> text, words |-> <<>>]
EarlierTexts ==
  UNION { { [j \in 1 .. (n - searchWindow(n)) |-> "x"] \o t : t \in [1 .. searchWindow(n) -> RawTokens] } :
          n \in TextLens }
LaterTexts ==
  UNION { { t \o [j \in 1 .. (n - searchWindow(n)) |-> "y"] : t \in [1 .. searchWindow(n) -> RawTokens] } :
          n \in TextLens }

\* two chunks of 10 s with an overlap of 2 s, as calculateChunks builds them
SeedPlan == SecondPass(<<0, 100, 200>>, 20, 200)

\* the answer for the first chunk ends with words at 9.5 - 9.8 s and 9.9 - 10.2 s,
\* the answer for the second chunk (which starts at 8 s) begins with words at
\* the same absolute times
SeedTailA == <<[word |-> "a2", start |-> 95, end |-> 98], [word |-> "a3", start |-> 99, end |-> 102]>>
SeedHeadB == <<[word |-> "b1", start |-> 15, end |-> 18], [word |-> "b2", start |-> 19, end |-> 22]>>
SeedEarlier == { <<>>, <<[word |-> "a1", start |-> 50, end |-> 55]>> }
SeedLater == { <<>>, <<[word |-> "b3", start |-> 40, end |-> 45]>> }

\* a successful result with the given words
SeedResult(chunk, words) ==
  [chunk |-> chunk, success |-> TRUE,
   text |-> [j \in 1 .. Len(words) |-> words[j].word],
   words |-> words]

\* the merge is called with the results and the overlap of the plan
ReadyMerge(rs, overlapDurationSec) ==
  [pc |-> "ready", results |-> rs, overlapDurationSec |-> overlapDurationSec, out |-> EmptyMerge]

InitMerge ==
  /\ DispInit
  /\ ps = PsIdle
  /\ sr = SrIdle
  /\ policy = [maxRetries |-> 0, initialDelayMs |-> 100, backoffMultiplier |-> 2, maxDelayMs |-> 300]
  /\ cls = ClsIdle
  /\ bo = BoIdle
  /\ pl = PlIdle
  /\ \/ \E n \in MergeChunkCounts, o \in MergeOverlaps :
          \E rs \in ResultsOf(MergePlan(n, o)) : mg = ReadyMerge(rs, o)
     \/ \E t1 \in EarlierTexts, t2 \in LaterTexts, o \in MergeOverlaps :
          mg = ReadyMerge(<<TextResult(MergePlan(2, o)[1], t1),
                            TextResult(MergePlan(2, o)[2], t2)>>, o)
     \/ \E earlier \in SeedEarlier, later \in SeedLater :
          mg = ReadyMerge(<<SeedResult(SeedPlan[1], earlier \o SeedTailA),
                            SeedResult(SeedPlan[2], SeedHeadB \o later)>>, 20)

\* successfulResults.length === 0: the empty result
MergeEmpty ==
  /\ mg.pc = "ready"
  /\ Len(successfulResults(mg.results)) = 0
  /\ mg' = [mg EXCEPT !.pc = "done",
                      !.out = mergeTranscriptsWithDeduplication(mg.results, mg.overlapDurationSec)]
  /\ UNCHANGED <<dispVars, cls, bo, pl, ps, sr>>

\* some result carries words: deduplicateByTimestamp
MergeByTimestamp ==
  /\ mg.pc = "ready"
  /\ Len(successfulResults(mg.results)) > 0
  /\ Len(allWordsWithAbsoluteTime(successfulResults(mg.results), 1)) > 0
  /\ mg' = [mg EXCEPT !.pc = "done",
                      !.out = mergeTranscriptsWithDeduplication(mg.results, mg.overlapDurationSec)]
  /\ UNCHANGED <<dispVars, cls, bo, pl, ps, sr>>

\* no result carries words: fallbackTextMerge
MergeFallback ==
  /\ mg.pc = "ready"
  /\ Len(successfulResults(mg.results)) > 0
  /\ Len(allWordsWithAbsoluteTime(successfulResults(mg.results), 1)) = 0
  /\ mg' = [mg EXCEPT !.pc = "done",
                      !.out = mergeTranscriptsWithDeduplication(mg.results, mg.overlapDurationSec)]
  /\ UNCHANGED <<dispVars, cls, bo, pl, ps, sr>>

NextMerge == MergeEmpty \/ MergeByTimestamp \/ MergeFallback

SpecMerge == InitMerge /\ [][NextMerge]_vars

\* ------------------------------------------------ findSilentRegions, run alone
\* Times are milliseconds.  The audio is given as the RMS of each analysis
\* window of 50 ms; the last window holds the samples that are left.
MaxFrames == 7

\* Math.floor(0.05 * sampleRate) samples: 50 ms
FrameMs == 50

RmsLevels == {0, 1, 2}
Thresholds == {1, 2}
MinDurations == {2 * FrameMs, MinSilenceMs}
\* length of the last window: a whole one, or the 20 ms left of the audio
LastFrames == {FrameMs, 20}

\* the silence that is still open when the samples end is left out
SilenceAtEnd_Dropped(silences, silenceStart, endTimeMs, minDurationMs) == silences

\* an entry of silences
Silence(startMs, endMs) == [start |-> startMs, end |-> endMs, duration |-> endMs - startMs]

\* const timeMs = (i / sampleRate) * 1000 of the k-th window
FrameTimeMs(k) == (k - 1) * FrameMs

\* const endTimeMs = (samples.length / sampleRate) * 1000
EndTimeMs(frames, lastFrameMs) ==
  IF Len(frames) = 0 THEN 0 ELSE (Len(frames) - 1) * FrameMs + lastFrameMs

\* after the loop: if (silenceStart !== null) the silence up to endTimeMs is
\* pushed when it lasts minDurationMs (silenceStart = -1 stands for null)
SilenceAtEnd(silences, silenceStart, endTimeMs, minDurationMs) ==
  IF silenceStart # -1 /\ endTimeMs - silenceStart >= minDurationMs
  THEN Append(silences, Silence(silenceStart, endTimeMs))
  ELSE silences

RECURSIVE SilentFrom(_, _, _, _, _, _, _)
\* the for loop over the windows from the k-th on
SilentFrom(frames, threshold, minDurationMs, endTimeMs, k, silenceStart, silences) ==
  IF k > Len(frames)
  THEN SilenceAtEnd(silences, silenceStart, endTimeMs, minDurationMs)
  ELSE IF frames[k] < threshold
       THEN SilentFrom(frames, threshold, minDurationMs, endTimeMs, k + 1,
                       IF silenceStart = -1 THEN FrameTimeMs(k) ELSE silenceStart, silences)
       ELSE SilentFrom(frames, threshold, minDurationMs, endTimeMs, k + 1, -1,
                       IF silenceStart # -1 /\ FrameTimeMs(k) - silenceStart >= minDurationMs
                       THEN Append(silences, Silence(silenceStart, FrameTimeMs(k)))
                       ELSE silences)

findSilentRegions(frames, lastFrameMs, threshold, minDurationMs) ==
  SilentFrom(frames, threshold, minDurationMs, EndTimeMs(frames, lastFrameMs), 1, -1, <<>>)

\* the audio buffers: up to MaxFrames windows
FrameSeqs == UNION { [1 .. n -> RmsLevels] : n \in 0 .. MaxFrames }

InitSilent ==
  /\ DispInit
  /\ policy = [maxRetries |-> 0, initialDelayMs |-> 100, backoffMultiplier |-> 2, maxDelayMs |-> 300]
  /\ cls = ClsIdle
  /\ bo = BoIdle
  /\ pl = PlIdle
  /\ mg = MgIdle
  /\ ps = PsIdle
  /\ \E frames \in FrameSeqs, last \in LastFrames, t \in Thresholds, m \in MinDurations :
       sr = [pc |-> "ready", frames |-> frames, lastFrameMs |-> last, threshold |-> t,
             minDurationMs |-> m, out |-> <<>>]

\* findSilentRegions(audioBuffer, threshold, minDurationMs) is called and returns
FindSilent ==
  /\ sr.pc = "ready"
  /\ sr' = [sr EXCEPT !.pc = "done",
                      !.out = findSilentRegions(sr.frames, sr.lastFrameMs, sr.threshold,
                                                sr.minDurationMs)]
  /\ UNCHANGED <<dispVars, cls, bo, pl, mg, ps>>

NextSilent == FindSilent

SpecSilent == InitSilent /\ [][NextSilent]_vars

\* ------------------------------------------------ the processing state object
\* createProcessingState(): the flags of a run, the index of the chunk being
\* processed and the list of failed chunks.  ps.op names the last method called.

\* the failedChunks lists the model follows hold at most this many entries
MaxFailed == 2

\* abort() that starts over: the reference values are lost
abort_Reset(state) ==
  [state EXCEPT !.isAborted = TRUE, !.isProcessing = FALSE,
                !.currentChunkIndex = -1, !.failedChunks = <<>>]

\* the error types a failed chunk is recorded with
FailedTypes == {NETWORK, AUTH}

reset(state) ==
  [state EXCEPT !.isProcessing = FALSE, !.isAborted = FALSE,
                !.currentChunkIndex = -1, !.failedChunks = <<>>]

start(state) == [reset(state) EXCEPT !.isProcessing = TRUE]

abort(state) == [state EXCEPT !.isAborted = TRUE, !.isProcessing = FALSE]

complete(state) == [state EXCEPT !.isProcessing = FALSE]

addFailedChunk(state, index, errorType) ==
  [state EXCEPT !.failedChunks = Append(@, [index |-> index, errorType |-> errorType])]

InitState ==
  /\ DispInit
  /\ policy = [maxRetries |-> 0, initialDelayMs |-> 100, backoffMultiplier |-> 2, maxDelayMs |-> 300]
  /\ cls = ClsIdle
  /\ bo = BoIdle
  /\ pl = PlIdle
  /\ mg = MgIdle
  /\ sr = SrIdle
  /\ ps = PsIdle

StateReset ==
  /\ ps' = [reset(ps) EXCEPT !.op = "reset"]
  /\ UNCHANGED <<dispVars, cls, bo, pl, mg, sr>>

StateStart ==
  /\ ps' = [start(ps) EXCEPT !.op = "start"]
  /\ UNCHANGED <<dispVars, cls, bo, pl, mg, sr>>

StateAbort ==
  /\ ps' = [abort(ps) EXCEPT !.op = "abort"]
  /\ UNCHANGED <<dispVars, cls, bo, pl, mg, sr>>

StateComplete ==
  /\ ps' = [complete(ps) EXCEPT !.op = "complete"]
  /\ UNCHANGED <<dispVars, cls, bo, pl, mg, sr>>

StateAddFailedChunk ==
  /\ Len(ps.failedChunks) < MaxFailed
  /\ \E index \in Chunks, errorType \in FailedTypes :
       ps' = [addFailedChunk(ps, index, errorType) EXCEPT !.op = "addFailedChunk"]
  /\ UNCHANGED <<dispVars, cls, bo, pl, mg, sr>>

\* the owner of the object writes its fields: state.currentChunkIndex = n
StateSetIndex ==
  /\ \E index \in Chunks : ps' = [ps EXCEPT !.currentChunkIndex = index, !.op = "set"]
  /\ UNCHANGED <<dispVars, cls, bo, pl, mg, sr>>

\* state.isAborted = true
StateSetAborted ==
  /\ ps' = [ps EXCEPT !.isAborted = TRUE, !.op = "set"]
  /\ UNCHANGED <<dispVars, cls, bo, pl, mg, sr>>

NextState ==
  \/ StateReset \/ StateStart \/ StateAbort \/ StateComplete
  \/ StateAddFailedChunk \/ StateSetIndex \/ StateSetAborted

SpecState == InitState /\ [][NextState]_vars

\* ================================================================ claims
\* what the hook log and the submission log of the chunk started last say
CurChunk == curHooks[1].c
HookKinds(h) == { k \in 1 .. Len(curHooks) : curHooks[k].h = h }
NumRetries == Cardinality(HookKinds("retry"))
NumTerminal == Cardinality(HookKinds("complete") \cup HookKinds("error"))
NumSubmissions == Len(subLog)
LastHook == curHooks[Len(curHooks)]
LastResult == results[Len(results)]
TerminalPhases == {"succeeded", "failed", "cancelled"}
ActivePhases == {"started", "extracting", "inflight", "backoff"}
Finished == phase[CurChunk] \in TerminalPhases
IsFailure(e) == e.src \notin {"pending", "ok"}

\* on_chunk_start first, then on_retry only, a terminal hook only as the last
\* call, all for the same chunk
WellOrdered ==
  /\ curHooks[1].h = "start"
  /\ \A k \in 2 .. Len(curHooks) :
       /\ curHooks[k].c = CurChunk
       /\ curHooks[k].h # "start"
       /\ (curHooks[k].h \in {"complete", "error"} => k = Len(curHooks))
       /\ (k < Len(curHooks) => curHooks[k].h = "retry")

\* C1 as stated: for a started chunk the hooks are on_chunk_start, then on_retry
\* calls, then exactly one of on_chunk_complete or on_chunk_error, whatever the
\* service answers and whenever the cancellation predicate becomes true.
C1_HookOrderExactlyOneTerminal ==
  curHooks # <<>> =>
    /\ WellOrdered
    /\ (Finished => NumTerminal = 1)

\* C1 amended: the hooks are on_chunk_start, then on_retry calls, then at most
\* one terminal hook: on_chunk_complete for a succeeded chunk, on_chunk_error
\* for a failed one, and none for a chunk cancelled at the check after
\* on_chunk_start or after the extraction.
C1_HookOrderAmended ==
  curHooks # <<>> =>
    /\ WellOrdered
    /\ NumTerminal <= 1
    /\ (phase[CurChunk] = "succeeded" => NumTerminal = 1 /\ LastHook.h = "complete")
    /\ (phase[CurChunk] = "failed" => NumTerminal = 1 /\ LastHook.h = "error")
    /\ (phase[CurChunk] = "cancelled" => Len(curHooks) = 1)
    /\ (~Finished => NumTerminal = 0)

\* C1 witness: a chunk failed after two on_retry calls; its log is start,
\* retry, retry, error
C1_Witness ==
  /\ curHooks # <<>>
  /\ phase[CurChunk] = "failed"
  /\ NumRetries = 2
  /\ Len(curHooks) = 4

\* C2 as stated: once a submission of chunk i was answered 401 or 403, chunk i
\* is recorded Failed with kind Auth as the last of exactly i + 1 results, the
\* plan has stopped and no later chunk was started.
C2_AuthStopsPlan ==
  (curHooks # <<>> /\ \E k \in 1 .. Len(subLog) : subLog[k].status \in {401, 403}) =>
    /\ pc = "done"
    /\ phase[CurChunk] = "failed"
    /\ Len(results) = CurChunk + 1
    /\ LastResult = [index |-> CurChunk, success |-> FALSE, errorType |-> AUTH]
    /\ \A c \in Chunks : c > CurChunk => phase[c] = "pending"

\* C3 as stated: when transcribeChunks returns after the cancellation predicate
\* returned true, the results are those accumulated when it returned true.
C3_CancelReturnsAccumulated ==
  (pc = "done" /\ polledLen # -1) => Len(results) = polledLen

C5_FatalNotRetried ==
  curHooks # <<>> =>
    \A k \in 1 .. Len(subLog) :
      (IsFailure(subLog[k]) /\ ~classifyError(subLog[k], subLog[k].status).retryable) =>
        /\ k = Len(subLog)
        /\ NumRetries = k - 1
        /\ LastHook.h = "error"
        /\ phase[CurChunk] = "failed"
        /\ Len(results) = CurChunk + 1
        /\ LastResult.index = CurChunk /\ ~LastResult.success

\* C5 witness: a 400 about the audio ended a chunk after one earlier retry
C5_Witness ==
  /\ curHooks # <<>>
  /\ Len(subLog) = 2
  /\ subLog[2] = HttpErr(400, FALSE, TRUE)
  /\ phase[CurChunk] = "failed"

\* ------------------------------------------------------- classifyError
\* the classification table: by status code when there is one, else by what
\* the error says it is
TableKind(e, status) ==
  CASE status = 429 -> [type |-> RATE_LIMIT, retryable |-> TRUE]
    [] status \in {500, 502, 503, 504} -> [type |-> SERVER, retryable |-> TRUE]
    [] status \in {401, 403} -> [type |-> AUTH, retryable |-> FALSE]
    [] status = 400 /\ e.audioMsg -> [type |-> INVALID_AUDIO, retryable |-> FALSE]
    [] status # 0 -> [type |-> UNKNOWN, retryable |-> FALSE]
    [] status = 0 /\ (e.name = "AbortError" \/ e.timedOut) -> [type |-> TIMEOUT, retryable |-> TRUE]
    [] status = 0 /\ ((e.name = "TypeError" /\ e.hasFetch) \/ e.netMsg) -> [type |-> NETWORK, retryable |-> TRUE]
    [] OTHER -> [type |-> UNKNOWN, retryable |-> FALSE]

\* C6 as stated: classifyError gives, for every error and status code, the
\* kind and the retryable flag of the classification table.
C6_ClassifyFollowsTable ==
  cls.out # "idle" =>
    /\ cls.out = TableKind(cls.error, cls.status).type
    /\ cls.retryable = TableKind(cls.error, cls.status).retryable

\* ------------------------------------------------ calculateBackoffDelay
\* the delays the default RetryConfig gives
DefaultDelays == <<1000, 2000, 4000, 8000, 16000, 32000>>
DefaultDelay(k) == IF k < Len(DefaultDelays) THEN DefaultDelays[k + 1] ELSE DefaultMaxDelayMs

\* C7: the delay after failed attempt k is min(initial * multiplier^k, max); it
\* never exceeds max, the next delay is never smaller, and the default policy
\* gives 1000, 2000, 4000, 8000, 16000, 32000 and then 60000.
C7_BackoffDelay ==
  bo.out # -1 =>
    /\ bo.out = Min(bo.config.initialDelayMs * Pow(bo.config.backoffMultiplier, bo.k),
                    bo.config.maxDelayMs)
    /\ bo.out <= bo.config.maxDelayMs
    /\ calculateBackoffDelay(bo.k + 1, bo.config) >= bo.out
    /\ (bo.config = RetryConfig => bo.out = DefaultDelay(bo.k))

\* C7 witness: the default policy at attempt 6, where the cap of 60000 applies
C7_Witness ==
  /\ bo.config = RetryConfig
  /\ bo.k = 6
  /\ bo.out = 60000

\* ------------------------------------------------------------- on_retry
\* the n-th on_retry of the chunk reports attempt n, the policy maximum, the
\* delay min(initial * multiplier^(n-1), max) and the kind of the n-th failure
RetryArgsRight ==
  \A k \in 2 .. Len(curHooks) :
    curHooks[k].h = "retry" =>
      /\ k - 1 <= Len(subLog)
      /\ IsFailure(subLog[k - 1])
      /\ curHooks[k].attempt = k - 1
      /\ curHooks[k].max = policy.maxRetries
      /\ curHooks[k].delay =
           Min(policy.initialDelayMs * Pow(policy.backoffMultiplier, k - 2), policy.maxDelayMs)
      /\ curHooks[k].kind = classifyError(subLog[k - 1], subLog[k - 1].status).type

\* initial 100 ms, multiplier 2, two 503 and then a success
Is503Scenario ==
  /\ policy.initialDelayMs = 100 /\ policy.backoffMultiplier = 2
  /\ subLog = <<HttpErr(503, FALSE, FALSE), HttpErr(503, FALSE, FALSE), OkResp>>

\* C8 as stated: for a finished chunk with a submission, the number of on_retry
\* calls is the number of submissions less one, and every on_retry reports the
\* right arguments.
C8_RetriesAreSubmissionsLessOne ==
  (curHooks # <<>> /\ Finished /\ NumSubmissions >= 1) =>
    /\ NumRetries = NumSubmissions - 1
    /\ RetryArgsRight

\* C8 amended: every on_retry reports the right arguments, and the number of
\* on_retry calls of a finished chunk is the number of submissions less one,
\* unless the cancellation predicate returned true after an on_retry and
\* before the next submission: then the chunk is recorded Failed and the two
\* numbers are equal.  Two 503 and a success under 100 ms, multiplier 2 give
\* delays 100 and 200, two on_retry calls and a Succeeded chunk.
C8_RetriesAmended ==
  curHooks # <<>> =>
    /\ RetryArgsRight
    /\ (NumSubmissions >= 1 => NumRetries \in {NumSubmissions - 1, NumSubmissions})
    /\ ( (Finished /\ NumSubmissions >= 1 /\ NumRetries # NumSubmissions - 1) =>
           /\ aborted /\ polledLen # -1
           /\ phase[CurChunk] = "failed"
           /\ LastHook.h = "error"
           /\ IsFailure(subLog[Len(subLog)]) )
    /\ ( (Finished /\ NumSubmissions >= 1 /\ ~aborted) => NumRetries = NumSubmissions - 1 )
    /\ ( Is503Scenario =>
           /\ phase[CurChunk] = "succeeded"
           /\ NumRetries = 2
           /\ curHooks[2].delay = 100 /\ curHooks[3].delay = 200
           /\ curHooks[2].kind = SERVER /\ curHooks[3].kind = SERVER
           /\ LastHook.h = "complete" )

\* C8 witness: the 503, 503, success scenario has run
C8_Witness ==
  /\ curHooks # <<>>
  /\ Is503Scenario
  /\ Finished

\* ------------------------------------------------------------ sequencing
\* C9: at most one chunk is being extracted, submitted or waited for, chunks
\* are taken up in index order, each only when the one before has ended, and
\* the chunk index the hooks are called with never goes down.
C9_Sequential ==
  /\ [](/\ Cardinality({c \in Chunks : phase[c] \in ActivePhases}) <= 1
        /\ \A c, d \in Chunks :
             (c < d /\ phase[d] # "pending") => phase[c] \in TerminalPhases
        /\ (curHooks # <<>> => lastHookChunk = CurChunk))
  /\ [][lastHookChunk' >= lastHookChunk]_vars

\* C9 witness: the last chunk is in flight after all the others have ended
C9_Witness ==
  /\ phase[NumChunks - 1] = "inflight"
  /\ \A c \in Chunks : c < NumChunks - 1 => phase[c] \in {"succeeded", "failed"}
  /\ lastHookChunk = NumChunks - 1

\* C10: the entry at position i of the results is the result of chunk i, at
\* every moment and so also in what is returned.
C10_ResultsIndexed ==
  \A k \in 1 .. Len(results) : results[k].index = k - 1

\* C10 witness: the plan ran to its end with a failed chunk at the front
C10_Witness ==
  /\ pc = "done"
  /\ Len(results) = NumChunks
  /\ ~results[1].success
  /\ results[NumChunks].success

\* ------------------------------------------------- failures and the plan
\* C11: a chunk recorded Failed with a kind other than Auth has exactly one
\* entry in the results, its own, as the last of CurChunk + 1 entries, and the
\* loop has moved on to the next index: it stands at the head of the loop, or
\* has returned because the plan is finished or the cancellation predicate
\* was found true.
C11_FailureIsLocal ==
  (curHooks # <<>> /\ phase[CurChunk] = "failed" /\ LastResult.errorType # AUTH) =>
    /\ Len(results) = CurChunk + 1
    /\ LastResult.index = CurChunk /\ ~LastResult.success
    /\ i = CurChunk + 1
    /\ (pc = "loop" \/ (pc = "done" /\ (aborted \/ i >= NumChunks)))
    /\ ((~aborted /\ i < NumChunks) => ENABLED StartChunk)

\* C11 witness: the first chunk failed with a kind other than Auth, the chunk
\* after it succeeded
C11_Witness ==
  /\ Len(results) >= 2
  /\ ~results[1].success /\ results[1].errorType \in {SERVER, TIMEOUT, INVALID_AUDIO}
  /\ results[2].success
  /\ ~aborted

\* C12 as stated: when the run has ended every started chunk is Succeeded,
\* Failed or Cancelled, and the chunk that was being processed when the
\* cancellation predicate returned true is Cancelled and has no entry in the
\* results.
C12_CancelledNotFailed ==
  /\ (pc = "done" => \A c \in Chunks : phase[c] \in TerminalPhases \cup {"pending"})
  /\ ((curHooks # <<>> /\ polledLen = CurChunk) =>
        /\ phase[CurChunk] = "cancelled"
        /\ Len(results) = CurChunk)

\* C13: a sleep of the backoff wait lasts at most 500 ms, and less only when it
\* is the rest of the wait; once the cancellation predicate is true during
\* the wait, the next step of the dispatcher ends the wait without a new
\* submission, the chunk does not succeed, and no submission is made afterwards.
C13_BackoffCancellable ==
  /\ [][(pc = "backoff" /\ pc' = "backoff" /\ aborted' = aborted) =>
          /\ waitLeft' < waitLeft
          /\ waitLeft - waitLeft' <= SleepSliceMs
          /\ (waitLeft - waitLeft' < SleepSliceMs => waitLeft' = 0)]_vars
  /\ [][(pc = "backoff" /\ aborted /\ aborted') =>
          /\ pc' # "backoff"
          /\ subLog' = subLog
          /\ phase'[i] \in {"failed", "cancelled"}
          /\ LastHook.h = "retry"]_vars
  /\ [][aborted => Len(subLog') <= Len(subLog)]_vars

\* C13 witness: a wait of 600 ms was cut short after its first sleep of 500 ms
C13_Witness ==
  /\ curHooks # <<>>
  /\ aborted /\ pc # "backoff"
  /\ waitLeft = 100
  /\ NumRetries = 1 /\ NumSubmissions = 1
  /\ phase[CurChunk] \in {"failed", "cancelled"}

\* C14 as stated: once the cancellation predicate is true while a submission
\* is in flight, the submission ends by being aborted, not by an answer of
\* the service or by its deadline.
C14_InflightAborted ==
  [][(pc = "inflight" /\ aborted /\ aborted') =>
        subLog'[Len(subLog')] = AbortErr]_vars

PlanDone == pl.pc = "done"
NumPlanned == Len(pl.chunks)

\* C16: a plan is logically continuous: the first chunk starts at 0, the last
\* ends at the duration, every chunk starts where the one before ends, and
\* the indices are 0, 1, 2, ..., whatever silences the probe returned.
C16_LogicallyContinuous ==
  PlanDone =>
    /\ NumPlanned >= 1
    /\ pl.chunks[1].logicalStart = 0
    /\ pl.chunks[NumPlanned].logicalEnd = pl.duration
    /\ \A k \in 1 .. NumPlanned : pl.chunks[k].index = k - 1
    /\ \A k \in 2 .. NumPlanned : pl.chunks[k].logicalStart = pl.chunks[k - 1].logicalEnd

\* C16 witness: a plan of three chunks whose first cut is at a silence away
\* from the ideal cut
C16_Witness ==
  /\ PlanDone /\ NumPlanned = 3
  /\ pl.how[1] = "silence"
  /\ pl.cutPoints[2] # pl.chunkLengthSec

\* C17 as stated: every chunk of a plan has a strictly positive logical
\* length, for every chunk length, silence window and silences inside the
\* window.
C17_PositiveLength ==
  PlanDone =>
    \A k \in 1 .. NumPlanned : pl.chunks[k].logicalEnd > pl.chunks[k].logicalStart

\* C18: the actual bounds of a chunk contain its logical bounds and stay
\* inside the file: 0 <= start <= logicalStart and logicalEnd <= end <= duration.
C18_ActualContainsLogical ==
  PlanDone =>
    \A k \in 1 .. NumPlanned :
      /\ 0 <= pl.chunks[k].start
      /\ pl.chunks[k].start <= pl.chunks[k].logicalStart
      /\ pl.chunks[k].logicalEnd <= pl.chunks[k].end
      /\ pl.chunks[k].end <= pl.duration

\* C18 witness: a plan where the overlap is larger than the room before a
\* chunk and after a chunk, so that both clamps act
C18_Witness ==
  /\ PlanDone /\ NumPlanned >= 2
  /\ \E k \in 2 .. NumPlanned :
       /\ pl.chunks[k].logicalStart < pl.overlapDurationSec
       /\ pl.chunks[k].start = 0
  /\ \E k \in 1 .. (NumPlanned - 1) :
       /\ pl.chunks[k].logicalEnd + pl.overlapDurationSec > pl.duration
       /\ pl.chunks[k].end = pl.duration

\* C19: the first chunk has no leading overlap and starts at 0, the last chunk
\* has no trailing overlap and ends at the duration; a plan of one chunk has
\* neither overlap.
C19_NoOverlapAtTheEnds ==
  PlanDone =>
    /\ pl.chunks[1].leading = 0
    /\ pl.chunks[1].start = 0
    /\ pl.chunks[NumPlanned].trailing = 0
    /\ pl.chunks[NumPlanned].end = pl.duration
    /\ (NumPlanned = 1 => pl.chunks[1].leading = 0 /\ pl.chunks[1].trailing = 0)

\* C19 witness: a plan of three chunks with an overlap, whose middle chunk has
\* both overlaps
C19_Witness ==
  /\ PlanDone /\ NumPlanned = 3
  /\ pl.overlapDurationSec > 0
  /\ pl.chunks[2].leading > 0 /\ pl.chunks[2].trailing > 0

\* C20 as stated: the leading overlap of a chunk is logicalStart - start and
\* its trailing overlap is end - logicalEnd, for every overlap and every cut.
C20_OverlapIsDifference ==
  PlanDone =>
    \A k \in 1 .. NumPlanned :
      /\ pl.chunks[k].leading = pl.chunks[k].logicalStart - pl.chunks[k].start
      /\ pl.chunks[k].trailing = pl.chunks[k].end - pl.chunks[k].logicalEnd

\* C21 as stated: the cut kind of a chunk is 'end' for the last chunk,
\* 'silence' when its end was taken from the midpoint of a silence and 'exact'
\* when it fell back to the ideal cut, so that a plan made with no silences
\* found has only 'exact' before its 'end'.
C21_CutKind ==
  PlanDone =>
    \A k \in 1 .. NumPlanned :
      pl.chunks[k].type = IF k = NumPlanned THEN "end"
                          ELSE IF pl.how[k] = "silence" THEN "silence" ELSE "exact"

\* C22: planning goes on after a failure of the probe: the cut of that window
\* is the ideal cut min(last cut + chunk length, duration), the run is still
\* planning or has returned a plan, and while more cuts are due the next
\* window is probed.
C22_ProbeFailureIsLocal ==
  /\ pl.pc \in {"idle", "pass1", "done"}
  /\ \A k \in 1 .. Len(pl.how) :
       pl.how[k] = "failed" =>
         pl.cutPoints[k + 1] = Min(pl.cutPoints[k] + pl.chunkLengthSec, pl.duration)
  /\ ((pl.pc = "pass1" /\ MoreCuts /\ Len(pl.cutPoints) <= MaxCuts) => ENABLED PlanCut)

\* C22 witness: a plan whose first window failed and whose second window gave
\* a silence away from the ideal cut
C22_Witness ==
  /\ PlanDone
  /\ Len(pl.how) >= 2
  /\ pl.how[1] = "failed" /\ pl.how[2] = "silence"
  /\ pl.cutPoints[2] = pl.chunkLengthSec
  /\ pl.cutPoints[3] # pl.cutPoints[2] + pl.chunkLengthSec

\* C23: findBestCutPoint returns null for no silences, and otherwise the
\* midpoint of the first silence in the list whose score
\* duration - 100 * |midpoint - ideal| no other silence exceeds.
C23_BestCutPoint ==
  (pl.pc \in {"pass1", "done"} /\ Len(pl.how) >= 1 /\ pl.how[Len(pl.how)] # "failed") =>
    LET ss == pl.last.silences
        Score(k) == ss[k].duration - DistancePenalty * Abs(ss[k].midpoint - pl.last.target)
    IN IF Len(ss) = 0
       THEN ~pl.last.found
       ELSE /\ pl.last.found
            /\ \E b \in 1 .. Len(ss) :
                 /\ pl.last.at = ss[b].midpoint
                 /\ \A k \in 1 .. Len(ss) : Score(k) <= Score(b)
                 /\ \A k \in 1 .. (b - 1) : Score(k) < Score(b)

\* C23 witness: two silences of equal score on either side of the ideal cut,
\* the earlier one chosen
C23_Witness ==
  /\ Len(pl.last.silences) = 2
  /\ pl.last.silences[1].duration = pl.last.silences[2].duration
  /\ pl.last.target - pl.last.silences[1].midpoint = pl.last.silences[2].midpoint - pl.last.target
  /\ pl.last.found /\ pl.last.at = pl.last.silences[1].midpoint

\* ------------------------------------------------------------ the merge
MergeDone == mg.pc = "done"
ByTimestamp == MergeDone /\ mg.out.path = "timestamp"

\* the merged chunks: the successful results that carry words, in plan order
Merged == SelectSeq(successfulResults(mg.results), LAMBDA r : Len(r.words) > 0)
Pairs == 1 .. (Len(Merged) - 1)
LiftedWords(r) == [j \in 1 .. Len(r.words) |-> AbsoluteWord(r, r.words[j])]
Names(ws) == { ws[j].word : j \in 1 .. Len(ws) }
OutNames == Names(mg.out.words)
AllNames == UNION { Names(Merged[k].words) : k \in 1 .. Len(Merged) }

RECURSIVE TotalWords(_)
TotalWords(k) == IF k > Len(Merged) THEN 0 ELSE Len(Merged[k].words) + TotalWords(k + 1)

\* ov_start, ov_end of the pair Merged[k], Merged[k + 1], its A_tail and B_head
OvStart(k) == LiftedWords(Merged[k + 1])[1].absoluteStart
OvEnd(k) == LiftedWords(Merged[k])[Len(Merged[k].words)].absoluteEnd
HasOverlap(k) == OvEnd(k) > OvStart(k)
ATail(k) ==
  SubSeq(LiftedWords(Merged[k]),
         thisChunkOverlapStartIdx(LiftedWords(Merged[k]), OvStart(k)) + 1, Len(Merged[k].words))
BHead(k) ==
  SubSeq(LiftedWords(Merged[k + 1]), 1,
         nextChunkOverlapEndIdx(LiftedWords(Merged[k + 1]), OvEnd(k)))
TailHigher(k) == Greater(MeanCentrality(ATail(k)), MeanCentrality(BHead(k)))
HeadHigher(k) == Greater(MeanCentrality(BHead(k)), MeanCentrality(ATail(k)))

\* C24: a timestamp-based merge emits as many words as the merged chunks hold
\* less the words it reports as dropped.
C24_WordCount ==
  ByTimestamp => Len(mg.out.words) = TotalWords(1) - mg.out.wordsDeduplicated

\* C24 witness: three merged chunks, the middle one overlapping both its
\* neighbours, with words dropped
C24_Witness ==
  /\ ByTimestamp /\ Len(Merged) = 3
  /\ HasOverlap(1) /\ HasOverlap(2)
  /\ mg.out.wordsDeduplicated >= 2

\* C25 as stated: no word is dropped if and only if no adjacent pair of merged
\* chunks has ov_end > ov_start, and overlaps_merged counts the pairs that have.
C25_DroppedIffOverlap ==
  ByTimestamp =>
    /\ (mg.out.wordsDeduplicated = 0 <=> \A k \in Pairs : ~HasOverlap(k))
    /\ mg.out.overlapsMerged = Cardinality({ k \in Pairs : HasOverlap(k) })

\* C26 as stated, for a merge of two chunks that overlap: when A's tail has the
\* strictly higher mean centrality B's head is dropped; when B's head has the
\* higher mean, or the means are equal, A's tail is dropped.
C26_TieGoesToLater ==
  (ByTimestamp /\ Len(Merged) = 2 /\ HasOverlap(1)) =>
    IF TailHigher(1)
    THEN OutNames = AllNames \ Names(BHead(1))
    ELSE OutNames = AllNames \ Names(ATail(1))

\* no word of a chunk is in the overlap with its predecessor and in the
\* overlap with its successor
HeadAndTailApart ==
  \A k \in Pairs :
    (k + 1 \in Pairs /\ HasOverlap(k) /\ HasOverlap(k + 1)) =>
      Names(BHead(k)) \cap Names(ATail(k + 1)) = {}

Kept(ws) == Names(ws) \subseteq OutNames
Dropped(ws) == Names(ws) \cap OutNames = {}

\* C27 as stated: for every adjacent pair with an overlap the output holds all
\* words of one of A's tail and B's head and none of the other, the one with
\* the strictly higher mean centrality when there is one.
C27_OneChunkCoversOverlap ==
  (ByTimestamp /\ HeadAndTailApart) =>
    \A k \in Pairs :
      HasOverlap(k) =>
        IF TailHigher(k) THEN Kept(ATail(k)) /\ Dropped(BHead(k))
        ELSE IF HeadHigher(k) THEN Kept(BHead(k)) /\ Dropped(ATail(k))
        ELSE \/ Kept(ATail(k)) /\ Dropped(BHead(k))
             \/ Kept(BHead(k)) /\ Dropped(ATail(k))

RECURSIVE ConcatOfRanges(_, _)
\* ws is made of one contiguous range of the words of each merged chunk from
\* the k-th on, in plan order
ConcatOfRanges(ws, k) ==
  IF k > Len(Merged) THEN ws = <<>>
  ELSE \E lo \in 1 .. (Len(Merged[k].words) + 1), hi \in 0 .. Len(Merged[k].words) :
         /\ lo <= hi + 1
         /\ hi - lo + 1 <= Len(ws)
         /\ SubSeq(ws, 1, hi - lo + 1) = SubSeq(LiftedWords(Merged[k]), lo, hi)
         /\ ConcatOfRanges(SubSeq(ws, hi - lo + 2, Len(ws)), k + 1)

\* C28: the emitted words are one contiguous range of each merged chunk's
\* words, in the order of the service, one chunk after the other in plan
\* order, also where the times of a chunk's words go backwards.
C28_PlanOrderSubranges ==
  ByTimestamp => ConcatOfRanges(mg.out.words, 1)

\* C28 witness: two merged chunks, the first with its second word starting
\* before its first, both emitted as the service gave them
C28_Witness ==
  /\ ByTimestamp /\ Len(Merged) = 2
  /\ Len(Merged[1].words) = 2
  /\ Merged[1].words[1].start > Merged[1].words[2].start
  /\ Len(mg.out.words) >= 3
  /\ mg.out.words[1].word = Merged[1].words[1].word
  /\ mg.out.words[2].word = Merged[1].words[2].word

\* C29: for a single successful result with words the merge returns its words
\* in their order, none dropped, with chunk.start added to their times, the
\* words as the text, and no overlap merged and no word dropped.
C29_SingleResult ==
  (MergeDone /\ Len(successfulResults(mg.results)) = 1 /\ Len(Merged) = 1) =>
    /\ Len(mg.out.words) = Len(Merged[1].words)
    /\ \A j \in 1 .. Len(Merged[1].words) :
         /\ mg.out.words[j].word = Merged[1].words[j].word
         /\ mg.out.words[j].absoluteStart = Merged[1].chunk.start + Merged[1].words[j].start
         /\ mg.out.words[j].absoluteEnd = Merged[1].chunk.start + Merged[1].words[j].end
    /\ mg.out.text = [j \in 1 .. Len(Merged[1].words) |-> Merged[1].words[j].word]
    /\ mg.out.overlapsMerged = 0
    /\ mg.out.wordsDeduplicated = 0

\* C29 witness: the single result is that of a chunk that does not start at 0
\* and has two words
C29_Witness ==
  /\ MergeDone /\ Len(successfulResults(mg.results)) = 1 /\ Len(Merged) = 1
  /\ Merged[1].chunk.start > 0
  /\ Len(mg.out.words) = 2

\* the longest run of matching tokens between two token lists
LongestRun(t1, h2) ==
  LET runs == { matchLength(t1, h2, a, b) : a \in 0 .. (Len(t1) - 1), b \in 0 .. (Len(h2) - 1) }
  IN IF runs = {} THEN 0 ELSE CHOOSE m \in runs : \A r \in runs : r <= m

\* C30 as stated, for two results without words and an overlap: when the
\* longest run of matching tokens between the last 30% of the first text and
\* the first 30% of the second has at least two tokens, the merged text is the
\* first text and the second text less that many tokens at its head; otherwise
\* it is the two texts one after the other; the tokens are the raw ones.
C30_FallbackStripsRun ==
  (MergeDone /\ mg.out.path = "fallback" /\ mg.overlapDurationSec > 0
     /\ Len(successfulResults(mg.results)) = 2) =>
    LET text1 == successfulResults(mg.results)[1].text
        text2 == successfulResults(mg.results)[2].text
        run == LongestRun(tail1(text1), head2(text2))
    IN mg.out.text = IF run >= MinOverlapTokens
                     THEN text1 \o SubSeq(text2, run + 1, Len(text2))
                     ELSE text1 \o text2

\* the results that carry words, found without successfulResults
WithWords == SelectSeq(mg.results, LAMBDA r : r.success /\ Len(r.words) > 0)
WordsOf(rs) == UNION { Names(rs[k].words) : k \in 1 .. Len(rs) }
Succeeded == SelectSeq(mg.results, LAMBDA r : r.success)

\* C31: the words of the output come from the successful results with words
\* and from nowhere else, each of these results gives all its words but those
\* in an overlap with a neighbour (all of them when no pair overlaps), whatever
\* subset of the chunks succeeded; when no result is a success the merge
\* returns the empty text, no words and 0 / 0.
C31_KeepsResultsWithWords ==
  MergeDone =>
    /\ (Len(WithWords) > 0) =>
         /\ mg.out.path = "timestamp"
         /\ OutNames \subseteq WordsOf(WithWords)
         /\ mg.out.text = [j \in 1 .. Len(mg.out.words) |-> mg.out.words[j].word]
         /\ \A k \in 1 .. Len(WithWords) :
              \A j \in 1 .. Len(WithWords[k].words) :
                \/ WithWords[k].words[j].word \in OutNames
                \/ /\ k - 1 \in Pairs /\ HasOverlap(k - 1)
                   /\ WithWords[k].words[j].word \in Names(BHead(k - 1))
                \/ /\ k \in Pairs /\ HasOverlap(k)
                   /\ WithWords[k].words[j].word \in Names(ATail(k))
    /\ (Len(Succeeded) > 0 /\ Len(WithWords) = 0) => mg.out.path = "fallback"
    /\ (Len(Succeeded) = 0) => mg.out = EmptyMerge

\* C31 witness: of three chunks the middle one failed, and the two others give
\* two words each, all four in the output
C31_Witness ==
  /\ MergeDone /\ Len(mg.results) = 3
  /\ ~mg.results[2].success
  /\ Len(mg.results[1].words) = 2 /\ Len(mg.results[3].words) = 2
  /\ Len(mg.out.words) = 4

\* C31 witness of the empty case: every chunk of a plan of three failed
C31_WitnessAllFailed ==
  /\ MergeDone /\ Len(mg.results) = 3 /\ Len(Succeeded) = 0
  /\ mg.out = EmptyMerge

\* C32 as stated: whenever a submission of a chunk is in flight, the blob
\* extracted for the chunk and submitted is no larger than the ceiling of 25 MB.
C32_PayloadUnderCeiling ==
  (pc = "inflight" /\ subLog # <<>>) => blobMB <= MaxSizeMB

\* ------------------------------------------------------- findSilentRegions
SilentDone == sr.pc = "done"
NumFrames == Len(sr.frames)
IsSilent(k) == sr.frames[k] < sr.threshold

\* the windows a .. b are a maximal run of windows below the threshold
MaximalRun(a, b) ==
  /\ a <= b
  /\ \A k \in a .. b : IsSilent(k)
  /\ (a = 1 \/ ~IsSilent(a - 1))
  /\ (b = NumFrames \/ ~IsSilent(b + 1))

RunStartMs(a) == (a - 1) * FrameMs
RunEndMs(b) == IF b = NumFrames THEN (NumFrames - 1) * FrameMs + sr.lastFrameMs ELSE b * FrameMs

\* the maximal runs that last at least minDurationMs
LongRuns ==
  { <<RunStartMs(a), RunEndMs(b)>> : <<a, b>> \in
      { ab \in (1 .. NumFrames) \X (1 .. NumFrames) :
          MaximalRun(ab[1], ab[2]) /\ RunEndMs(ab[2]) - RunStartMs(ab[1]) >= sr.minDurationMs } }

\* C33: findSilentRegions returns exactly the maximal runs of windows with an
\* RMS strictly below the threshold that last at least minDurationMs, a run
\* that reaches the end of the audio included; every silence has start < end
\* and duration = end - start >= minDurationMs, and the silences are disjoint
\* and in the order of time.
C33_MaximalQuietRuns ==
  SilentDone =>
    /\ { <<sr.out[k].start, sr.out[k].end>> : k \in 1 .. Len(sr.out) } = LongRuns
    /\ Len(sr.out) = Cardinality(LongRuns)
    /\ \A k \in 1 .. Len(sr.out) :
         /\ sr.out[k].start < sr.out[k].end
         /\ sr.out[k].duration = sr.out[k].end - sr.out[k].start
         /\ sr.out[k].duration >= sr.minDurationMs
    /\ \A k \in 1 .. (Len(sr.out) - 1) : sr.out[k].end < sr.out[k + 1].start

\* C33 witness: two silences are returned, the second one reaching the end of
\* an audio whose last window is a short one; the window between them has an
\* RMS equal to the threshold
C33_Witness ==
  /\ SilentDone /\ Len(sr.out) = 2
  /\ sr.lastFrameMs < FrameMs
  /\ sr.out[2].end = (NumFrames - 1) * FrameMs + sr.lastFrameMs
  /\ \E k \in 1 .. NumFrames :
       /\ sr.frames[k] = sr.threshold
       /\ sr.out[1].end = (k - 1) * FrameMs
       /\ sr.out[2].start = k * FrameMs

\* the merge of the two chunks with logical ranges 0 - 10 s and 10 - 20 s and an
\* overlap of 2 s, in which the last two words of A and the first two words of
\* B are at 9.5 - 9.8 s and 9.9 - 10.2 s
IsSeedMerge ==
  /\ MergeDone /\ Len(mg.results) = 2 /\ mg.overlapDurationSec = 20
  /\ mg.results[1].chunk.logicalStart = 0 /\ mg.results[1].chunk.logicalEnd = 100
  /\ mg.results[2].chunk.logicalStart = 100 /\ mg.results[2].chunk.logicalEnd = 200
  /\ Len(mg.results[1].words) >= 2 /\ Len(mg.results[2].words) >= 2
  /\ LET A == LiftedWords(mg.results[1])
         B == LiftedWords(mg.results[2])
         Times(w) == <<w.absoluteStart, w.absoluteEnd>>
     IN /\ Times(A[Len(A) - 1]) = <<95, 98>> /\ Times(A[Len(A)]) = <<99, 102>>
        /\ Times(B[1]) = <<95, 98>> /\ Times(B[2]) = <<99, 102>>

SeedWordsA == [j \in 1 .. Len(mg.results[1].words) |-> mg.results[1].words[j].word]
SeedWordsB == [j \in 1 .. Len(mg.results[2].words) |-> mg.results[2].words[j].word]

IsThreeChunkSeed ==
  /\ PlanDone /\ pl.unit = 10
  /\ pl.duration = 18000 /\ pl.chunkLengthSec = 6000 /\ pl.overlapDurationSec = 100
  /\ pl.audio = <<Quiet(6003), Quiet(11998)>>

ActualRanges == [k \in 1 .. Len(pl.chunks) |-> <<pl.chunks[k].start, pl.chunks[k].end>>]

\* C35 as stated: the cuts of the three-chunk seed are 0, 600.9, 1199.9 and
\* 1800 s and the actual ranges 0 - 610.9, 590.9 - 1209.9 and 1189.9 - 1800 s.
C35_SeedCutsAsStated ==
  IsThreeChunkSeed =>
    /\ pl.cutPoints = <<0, 6009, 11999, 18000>>
    /\ ActualRanges = << <<0, 6109>>, <<5909, 12099>>, <<11899, 18000>> >>

\* C35 amended: the cuts are the midpoints of the two silences, 0, 600.3,
\* 1199.8 and 1800 s, and the actual ranges are 0 - 610.3, 590.3 - 1209.8 and
\* 1189.8 - 1800 s.
C35_SeedCutsAtMidpoints ==
  IsThreeChunkSeed =>
    /\ pl.cutPoints = <<0, 6003, 11998, 18000>>
    /\ ActualRanges = << <<0, 6103>>, <<5903, 12098>>, <<11898, 18000>> >>

\* C35 witness: the plan of the three-chunk seed is made, both cuts at a silence
C35_Witness ==
  /\ IsThreeChunkSeed
  /\ pl.how = <<"silence", "silence">>
  /\ Len(pl.chunks) = 3

\* C36: a file no longer than the chunk length gives a plan of one chunk
\* with logical = actual = 0 .. duration, no overlap on either side and cut
\* kind 'end'.
C36_ShortFile ==
  (PlanDone /\ pl.duration <= pl.chunkLengthSec) =>
    /\ Len(pl.chunks) = 1
    /\ pl.chunks[1].logicalStart = 0 /\ pl.chunks[1].logicalEnd = pl.duration
    /\ pl.chunks[1].start = 0 /\ pl.chunks[1].end = pl.duration
    /\ pl.chunks[1].leading = 0 /\ pl.chunks[1].trailing = 0
    /\ pl.chunks[1].type = "end"

\* C36 witness: the plan of a file of 120 s with chunk length 600 s and overlap
\* 10 s is made
C36_Witness ==
  /\ PlanDone /\ pl.unit = 10
  /\ pl.duration = 1200 /\ pl.chunkLengthSec = 6000 /\ pl.overlapDurationSec = 100
  /\ Len(pl.chunks) = 1

\* ------------------------------------------------------------ the extractor
\* the chunk started last ended in the catch block before anything was submitted
ExtractionFailed ==
  curHooks # <<>> /\ phase[CurChunk] = "failed" /\ subLog = <<>>

\* C37: the extractor is called at most once for a chunk, and exactly once
\* for a chunk however often it is submitted; when it fails, no on_retry is
\* fired, nothing is submitted and the chunk gets a Failed result and
\* on_chunk_error.
C37_ExtractedOnce ==
  /\ extracts <= 1
  /\ (NumSubmissions > 0 => extracts = 1)
  /\ ExtractionFailed =>
       /\ extracts = 1
       /\ NumRetries = 0
       /\ LastHook.h = "error"
       /\ LastResult.index = CurChunk /\ ~LastResult.success

\* C37 witness: the extraction of the second chunk failed under a policy that
\* allows retries, after the first chunk succeeded
C37_Witness ==
  /\ ExtractionFailed /\ CurChunk = 1
  /\ policy.maxRetries = MaxRetries /\ MaxRetries > 0
  /\ Len(results) = 2 /\ results[1].success

\* C39 as stated: a chunk is recorded with error kind auth only if the service
\* answered a submission of that chunk with HTTP 401 or 403.
C39_AuthOnlyFromService ==
  (curHooks # <<>> /\ phase[CurChunk] = "failed" /\ LastResult.errorType = AUTH) =>
    /\ subLog # <<>>
    /\ subLog[Len(subLog)].src = "service"
    /\ subLog[Len(subLog)].status \in {401, 403}

\* C38 as stated: calculateChunks ends, whatever the probe returns inside its
\* windows: the first pass reaches its stop condition and the plan is made.
C38_Terminates == <>PlanDone

\* C40: start() leaves isProcessing true, isAborted false, currentChunkIndex
\* -1 and failedChunks empty; abort() sets isAborted and clears isProcessing;
\* complete() clears isProcessing and leaves isAborted as it was; abort() and
\* complete() leave failedChunks and currentChunkIndex as they were.
C40_StateMethods ==
  [][ /\ ps'.op = "start" =>
           /\ ps'.isProcessing /\ ~ps'.isAborted
           /\ ps'.currentChunkIndex = -1 /\ ps'.failedChunks = <<>>
      /\ ps'.op = "abort" =>
           /\ ps'.isAborted /\ ~ps'.isProcessing
           /\ ps'.failedChunks = ps.failedChunks
           /\ ps'.currentChunkIndex = ps.currentChunkIndex
      /\ ps'.op = "complete" =>
           /\ ~ps'.isProcessing /\ ps'.isAborted = ps.isAborted
           /\ ps'.failedChunks = ps.failedChunks
           /\ ps'.currentChunkIndex = ps.currentChunkIndex ]_vars

\* a run with a failed chunk is aborted while it processes a chunk
C40_Witness ==
  /\ ps.op = "abort"
  /\ ps.isAborted /\ ~ps.isProcessing
  /\ ps.failedChunks # <<>> /\ ps.currentChunkIndex >= 0

====
